---- MODULE Spec2Model ----
(***************************************************************************)
(* A model of the manifest validation and dependency-consistency engine of *)
(* wrappy (src/src/features): Version, ContainerManifest::validate, the    *)
(* structure validator, the dependency checks and the container factory.   *)
(*                                                                         *)
(* A Rust String that the code reads character by character (names,        *)
(* version strings) is a sequence of characters, a character being an atom *)
(* ("a", "1", ".", ...).  Two characters outside ASCII are named by their  *)
(* code point: "U00E9" (LATIN SMALL LETTER E WITH ACUTE) and "U0663"       *)
(* (ARABIC-INDIC DIGIT THREE).  A string the code only compares as a whole *)
(* (a script name, a literal piece of a message) is an atom, and a path is *)
(* the sequence of its components.                                         *)
(***************************************************************************)
EXTENDS Integers, Sequences, FiniteSets, TLC

VARIABLES
    containers,   \* the registry HashMap<String, Container>, as name -> dependency names
    manifest,     \* the ContainerManifest value under construction / validation
    available,    \* the HashMap<String, Version> of available packages
    fs,           \* the directory tree under the container path
    container,    \* the Container the factory returned last, or None
    now,          \* the clock read by Utc::now()
    input,        \* the arguments a caller holds for a call of a pure function
    last          \* the last operation: its name, its inputs and what it returned

vars == <<containers, manifest, available, fs, container, now, input, last>>

None == [tag |-> "None"]
Some(v) == [tag |-> "Some", val |-> v]
Ok(v) == [tag |-> "Ok", val |-> v]
Err(e) == [tag |-> "Err", err |-> e]
Unit == <<>>
IsOk(r) == r.tag = "Ok"
IsErr(r) == r.tag = "Err"

(***************************************************************************)
(* Strings and characters                                                  *)
(***************************************************************************)
AsciiDigits == {"0", "1", "2", "3", "4", "5", "6", "7", "8", "9"}

DigitVal(c) ==
    CASE c = "0" -> 0 [] c = "1" -> 1 [] c = "2" -> 2 [] c = "3" -> 3
      [] c = "4" -> 4 [] c = "5" -> 5 [] c = "6" -> 6 [] c = "7" -> 7
      [] c = "8" -> 8 [] c = "9" -> 9

\* regex \d with Unicode support: any decimal digit (Nd), not only ASCII.
RegexDigit(c) == c \in AsciiDigits \/ c = "U0663"

AsciiLetters == {"a", "b", "p", "k", "g", "A", "B", "C", "D", "x"}

\* char::is_alphanumeric: Unicode Alphabetic or Numeric.
is_alphanumeric(c) == c \in AsciiLetters \/ c \in AsciiDigits \/ c \in {"U00E9", "U0663"}

RECURSIVE SplitFrom(_, _, _)
\* str::split(sep): the pieces of s between occurrences of sep (always >= 1 piece).
SplitFrom(s, sep, cur) ==
    IF s = <<>> THEN <<cur>>
    ELSE IF Head(s) = sep THEN <<cur>> \o SplitFrom(Tail(s), sep, <<>>)
    ELSE SplitFrom(Tail(s), sep, Append(cur, Head(s)))

Split(s, sep) == SplitFrom(s, sep, <<>>)

RECURSIVE Join(_, _)
\* [String]::join(sep)
Join(parts, sep) ==
    IF parts = <<>> THEN <<>>
    ELSE IF Len(parts) = 1 THEN parts[1]
    ELSE parts[1] \o sep \o Join(Tail(parts), sep)

Contains(seq, x) == \E i \in 1..Len(seq) : seq[i] = x

(***************************************************************************)
(* u32 parsing.  A parsed number is kept as its canonical decimal digits   *)
(* (no leading zeros), so that values up to and beyond u32::MAX are exact. *)
(***************************************************************************)
U32MaxDigits == <<"4", "2", "9", "4", "9", "6", "7", "2", "9", "5">>

RECURSIVE StripZeros(_)
StripZeros(d) == IF Len(d) > 1 /\ Head(d) = "0" THEN StripZeros(Tail(d)) ELSE d

RECURSIVE LexLess(_, _)
\* d1 < d2 for digit sequences of equal length
LexLess(d1, d2) ==
    IF d1 = <<>> THEN FALSE
    ELSE IF DigitVal(Head(d1)) # DigitVal(Head(d2))
         THEN DigitVal(Head(d1)) < DigitVal(Head(d2))
         ELSE LexLess(Tail(d1), Tail(d2))

\* n1 < n2 for canonical digit sequences
NumLess(n1, n2) == Len(n1) < Len(n2) \/ (Len(n1) = Len(n2) /\ LexLess(n1, n2))

\* <u32 as FromStr>::from_str: an optional '+', then one or more ASCII digits,
\* leading zeros allowed, and the value must fit 32 bits.
parse_u32(s) ==
    LET digits == IF s # <<>> /\ Head(s) = "+" THEN Tail(s) ELSE s
    IN  IF digits = <<>> THEN Err("InvalidDigitOrEmpty")
        ELSE IF \E i \in 1..Len(digits) : digits[i] \notin AsciiDigits THEN Err("InvalidDigit")
        ELSE IF NumLess(U32MaxDigits, StripZeros(digits)) THEN Err("PosOverflow")
        ELSE Ok(StripZeros(digits))

(***************************************************************************)
(* Version (features/version/mod.rs): the value is the string itself.      *)
(***************************************************************************)
InvalidVersion(s) == [kind |-> "InvalidVersion", version |-> s]

\* one group (0|[1-9]\d*) of the semver regex
RegexNumber(p) ==
    \/ p = <<"0">>
    \/ /\ p # <<>>
       /\ Head(p) \in AsciiDigits \ {"0"}
       /\ \A i \in 2..Len(p) : RegexDigit(p[i])

validate_version_format(version) ==
    LET parts == Split(version, ".")
    IN  IF Len(parts) = 3 /\ \A i \in 1..3 : RegexNumber(parts[i])
        THEN Ok(Unit)
        ELSE Err(InvalidVersion(version))

\* Version::validate on a Version holding string v
VersionValidate(v) == validate_version_format(v)

\* Version::new / FromStr::from_str
VersionNew(s) == IF IsOk(validate_version_format(s)) THEN Ok(s) ELSE Err(InvalidVersion(s))

\* Version::from_parts: format!("{}.{}.{}") of three u32, then new
FormatParts(major, minor, patch) == major \o <<".">> \o minor \o <<".">> \o patch

parse_components(v) ==
    LET parts == Split(v, ".")
    IN  IF Len(parts) # 3 THEN Err(InvalidVersion(v))
        ELSE IF \E i \in 1..3 : IsErr(parse_u32(parts[i])) THEN Err(InvalidVersion(v))
        ELSE Ok(<<parse_u32(parts[1]).val, parse_u32(parts[2]).val, parse_u32(parts[3]).val>>)

\* (a1, a2, a3) >= (b1, b2, b3) on tuples of numbers
TupleGe(a, b) ==
    \/ NumLess(b[1], a[1])
    \/ a[1] = b[1] /\ NumLess(b[2], a[2])
    \/ a[1] = b[1] /\ a[2] = b[2] /\ ~NumLess(a[3], b[3])

is_compatible_with(self, other) ==
    LET s == parse_components(self)
        o == parse_components(other)
    IN  IF IsOk(s) /\ IsOk(o)
        THEN s.val[1] = o.val[1] /\ TupleGe(s.val, o.val)
        ELSE FALSE

(***************************************************************************)
(* Circular dependency detection (features/container/service.rs).          *)
(* A registered Container is represented by what the traversal reads of    *)
(* it: the names of manifest.dependencies, in declaration order.           *)
(***************************************************************************)
Arrow == <<" ", "-", ">", " ">>

CircularDependency(chain) == [kind |-> "CircularDependency", chain |-> chain]

\* visited.join(" -> ") at the moment `current` is found in visited
ChainWithCurrent(visited, current) == Join(Append(visited, current), Arrow)
ChainOf(visited, current) == Join(visited, Arrow)

\* visited.pop() after the loop over the dependencies
PopSkipped(visited) == visited
PopTwice(visited) == SubSeq(visited, 1, Len(visited) - 2)
PopVisited(visited) == SubSeq(visited, 1, Len(visited) - 1)

RECURSIVE check_circular_dependencies(_, _, _)
RECURSIVE check_each_dependency(_, _, _, _)

\* the for loop of lines 261-263: `?` leaves at the first error, with visited as it is
check_each_dependency(registry, visited, deps, i) ==
    IF i > Len(deps) THEN [res |-> Ok(Unit), visited |-> visited]
    ELSE LET r == check_circular_dependencies(registry, visited, deps[i])
         IN  IF IsErr(r.res) THEN r
             ELSE check_each_dependency(registry, r.visited, deps, i + 1)

\* returns the Result and the content of the &mut visited on return
check_circular_dependencies(registry, visited, current) ==
    IF Contains(visited, current)
    THEN [res |-> Err(CircularDependency(ChainOf(visited, current))), visited |-> visited]
    ELSE IF current \in DOMAIN registry
         THEN LET r == check_each_dependency(registry, Append(visited, current),
                                             registry[current], 1)
              IN  IF IsErr(r.res) THEN r
                  ELSE [res |-> Ok(Unit), visited |-> PopVisited(r.visited)]
         ELSE [res |-> Ok(Unit), visited |-> visited]

(***************************************************************************)
(* The registry as callers build it, and the check applied to it.          *)
(***************************************************************************)
MaxEdges == 4

NameA == <<"A">>
NameB == <<"B">>
NameC == <<"C">>
NameD == <<"D">>
RegistryNames == {NameA, NameB, NameC, NameD}
\* Callers register the names in this order (the traversal reads no name's
\* spelling, so which of them are registered first loses no shape of graph).
RegistryOrder == <<NameA, NameB, NameC, NameD>>

RECURSIVE SumLen(_, _)
SumLen(f, S) ==
    IF S = {} THEN 0
    ELSE LET n == CHOOSE n \in S : TRUE IN Len(f[n]) + SumLen(f, S \ {n})

TotalEdges(registry) == SumLen(registry, DOMAIN registry)

Idle == [op |-> "none"]

\* HashMap::insert(name, container) of a container that declares no dependency yet
InsertContainer(name) ==
    /\ name \notin DOMAIN containers
    /\ name = RegistryOrder[Cardinality(DOMAIN containers) + 1]
    /\ containers' = [n \in DOMAIN containers \cup {name} |->
                        IF n = name THEN <<>> ELSE containers[n]]
    /\ last' = Idle
    /\ UNCHANGED <<manifest, available, fs, container, now, input>>

\* ContainerManifest::add_dependency on a registered container: Vec::push
RegistryAddDependency(name, dep) ==
    /\ name \in DOMAIN containers
    /\ TotalEdges(containers) < MaxEdges
    /\ containers' = [containers EXCEPT ![name] = Append(@, dep)]
    /\ last' = Idle
    /\ UNCHANGED <<manifest, available, fs, container, now, input>>

\* ContainerService::check_circular_dependencies(&containers, &mut vec![], start)
CheckCircular(start) ==
    /\ LET r == check_circular_dependencies(containers, <<>>, start)
       IN  last' = [op |-> "check_circular_dependencies",
                    registry |-> containers,
                    path |-> <<>>,
                    current |-> start,
                    res |-> r.res,
                    visited |-> r.visited]
    /\ UNCHANGED <<containers, manifest, available, fs, container, now, input>>

InitCycle ==
    /\ containers = <<>>
    /\ manifest = None
    /\ available = None
    /\ fs = None
    /\ container = None
    /\ now = 0
    /\ input = None
    /\ last = Idle

NextCycle ==
    \/ \E name \in RegistryNames : InsertContainer(name)
    \/ \E name \in RegistryNames, dep \in RegistryNames : RegistryAddDependency(name, dep)
    \/ \E start \in RegistryNames : CheckCircular(start)

SpecCycle == InitCycle /\ [][NextCycle]_vars

(***************************************************************************)
(* Properties of the cycle check.                                          *)
(***************************************************************************)
\* the registered containers that `name` depends on directly
RegisteredDeps(registry, name) ==
    IF name \in DOMAIN registry
    THEN {registry[name][i] : i \in 1..Len(registry[name])} \cap DOMAIN registry
    ELSE {}

RECURSIVE Closure(_, _)
Closure(registry, S) ==
    LET T == S \cup UNION {RegisteredDeps(registry, n) : n \in S}
    IN  IF T = S THEN S ELSE Closure(registry, T)

OnCycle(registry, name) ==
    name \in DOMAIN registry /\ name \in Closure(registry, RegisteredDeps(registry, name))

CycleReachable(registry, start) ==
    start \in DOMAIN registry /\ \E n \in Closure(registry, {start}) : OnCycle(registry, n)

Diamond ==
    (NameA :> <<NameB, NameC>>) @@ (NameB :> <<NameD>>) @@ (NameC :> <<NameD>>)
        @@ (NameD :> <<>>)

TwoCycle == (NameA :> <<NameB>>) @@ (NameB :> <<NameA>>)

IsCheck == last.op = "check_circular_dependencies"

\* C1: started with an empty path, the check fails with CircularDependency exactly
\* when a cycle of registered containers is reachable from the start name through
\* registered containers; an unregistered name ends the descent without error, and
\* the acyclic diamond started at A returns Ok.
C1_CycleDetectedIff ==
    IsCheck =>
        /\ IsErr(last.res) <=> CycleReachable(last.registry, last.current)
        /\ IsErr(last.res) => last.res.err.kind = "CircularDependency"
        /\ last.current \notin DOMAIN last.registry => IsOk(last.res)
        /\ (last.registry = Diamond /\ last.current = NameA) => IsOk(last.res)

\* a cycle that does not pass through the start name, found after an unregistered
\* dependency was passed over
C1_Witness ==
    /\ IsCheck
    /\ IsErr(last.res)
    /\ ~OnCycle(last.registry, last.current)
    /\ \E i \in 1..Len(last.registry[last.current]) :
            last.registry[last.current][i] \notin DOMAIN last.registry

Distinct(seq) == \A i, j \in 1..Len(seq) : i # j => seq[i] # seq[j]

\* C2: the chain of a failed check is the recursion stack at the moment the
\* repeated name is met: it starts at the start name, follows declared
\* dependencies between registered containers, holds no name twice (the repeated
\* name is not appended again), its last container declares a name of the stack,
\* and it is joined by " -> "; for {A -> B, B -> A} started at A it is "A -> B".
C2_ChainIsStack ==
    (IsCheck /\ IsErr(last.res)) =>
        LET p == last.visited
            registry == last.registry
        IN  /\ last.res.err.chain = Join(p, Arrow)
            /\ p # <<>>
            /\ p[1] = last.current
            /\ Distinct(p)
            /\ \A i \in 1..Len(p) : p[i] \in DOMAIN registry
            /\ \A i \in 1..(Len(p) - 1) : Contains(registry[p[i]], p[i + 1])
            /\ \E j \in 1..Len(p) : Contains(registry[p[Len(p)]], p[j])
            /\ (registry = TwoCycle /\ last.current = NameA) =>
                    last.res.err.chain = <<"A", " ", "-", ">", " ", "B">>

C2_Witness ==
    /\ IsCheck
    /\ last.registry = TwoCycle
    /\ last.current = NameA
    /\ last.res = Err(CircularDependency(<<"A", " ", "-", ">", " ", "B">>))

(***************************************************************************)
(* Version values as callers construct and compare them.                   *)
(***************************************************************************)
U32Max == U32MaxDigits
U32MaxPlusOne == <<"4", "2", "9", "4", "9", "6", "7", "2", "9", "6">>

Majors == {<<"0">>, <<"1">>, <<"2">>, <<"1", "0">>, U32Max, U32MaxPlusOne}
Minors == {<<"0">>, <<"2">>, <<"3">>, <<"1", "0">>}
Patches == {<<"0">>, <<"3">>, <<"4">>}

\* strings of the shape "major.minor.patch"
DottedStrings == {FormatParts(a, b, c) : a \in Majors, b \in Minors, c \in Patches}

MalformedStrings ==
    { <<>>,
      <<"1", ".", "2">>,
      <<"1", ".", "2", ".", "3", ".", "4">>,
      <<"1", ".", "a", ".", "3">>,
      <<"0", "1", ".", "2", ".", "3">>,
      <<"+", "1", ".", "2", ".", "3">>,
      <<"1", ".", "2", ".", "3", "-", "b">>,
      <<"1", ".", ".", "3">>,
      <<"1", ".", "1", "U0663", ".", "3">> }

VersionStrings == DottedStrings \cup MalformedStrings

\* the Version values Version::new hands out
ConstructedVersions == {s \in VersionStrings : IsOk(VersionNew(s))}

\* Version::new(input.self)
VersionNewCall ==
    /\ last' = [op |-> "Version::new", res |-> VersionNew(input.self)]
    /\ UNCHANGED <<containers, manifest, available, fs, container, now, input>>

\* Version::new(input.self)?.is_compatible_with(&Version::new(input.other)?)
IsCompatibleWithCall ==
    /\ IsOk(VersionNew(input.self))
    /\ IsOk(VersionNew(input.other))
    /\ last' = [op |-> "is_compatible_with",
                self |-> VersionNew(input.self).val,
                other |-> VersionNew(input.other).val,
                res |-> is_compatible_with(VersionNew(input.self).val,
                                           VersionNew(input.other).val)]
    /\ UNCHANGED <<containers, manifest, available, fs, container, now, input>>

InitVersion ==
    /\ containers = <<>>
    /\ manifest = None
    /\ available = None
    /\ fs = None
    /\ container = None
    /\ now = 0
    /\ input \in [self : VersionStrings, other : VersionStrings]
    /\ last = Idle

NextVersion ==
    \/ VersionNewCall
    \/ IsCompatibleWithCall

SpecVersion == InitVersion /\ [][NextVersion]_vars

(***************************************************************************)
(* Properties of Version compatibility.                                    *)
(***************************************************************************)
\* the three components of a "major.minor.patch" string read as decimal numbers
\* of any size (canonical digits)
DecimalComponents(v) == [i \in 1..3 |-> StripZeros(Split(v, ".")[i])]

IsDecimal(v) ==
    /\ Len(Split(v, ".")) = 3
    /\ \A i \in 1..3 : /\ Split(v, ".")[i] # <<>>
                       /\ \A k \in 1..Len(Split(v, ".")[i]) : Split(v, ".")[i][k] \in AsciiDigits

SameMajorAndNotOlder(a, required) ==
    /\ IsDecimal(a)
    /\ IsDecimal(required)
    /\ DecimalComponents(a)[1] = DecimalComponents(required)[1]
    /\ TupleGe(DecimalComponents(a), DecimalComponents(required))

\* C5: for all Version values a and required, a.is_compatible_with(required) is
\* true exactly when the majors are equal and (major, minor, patch) of a is >=
\* that of required.
C5_CompatibleIffSameMajorAndGe ==
    last.op = "is_compatible_with" =>
        (last.res <=> SameMajorAndNotOlder(last.self, last.other))

(***************************************************************************)
(* ContainerManifest (features/manifest/mod.rs) and Container.             *)
(***************************************************************************)
ManifestValidation(msg) == [kind |-> "ManifestValidation", msg |-> msg]
MissingDefaultScript == [kind |-> "MissingDefaultScript"]
InvalidDependency(package, reason) ==
    [kind |-> "InvalidDependency", package |-> package, reason |-> reason]
PackageNotFound(package) == [kind |-> "PackageNotFound", package |-> package]
VersionConflict(conflict) == [kind |-> "VersionConflict", conflict |-> conflict]

Dependency(name, version, optional) ==
    [name |-> name, version |-> version, optional |-> optional]

DefaultScriptPath == <<"scripts", "default.sh">>

\* ContainerManifest::new(name, version)
ContainerManifestNew(name, version) ==
    [name |-> name,
     version |-> version,
     description |-> <<>>,
     author |-> <<>>,
     scripts |-> ("default" :> DefaultScriptPath),
     dependencies |-> <<>>,
     environment |-> <<>>,
     bindings |-> "BindingsConfig::new"]

\* the orders in which a HashMap with key set S may be iterated
IterationOrders(S) ==
    {o \in [1..Cardinality(S) -> S] : \A i, j \in 1..Cardinality(S) : i # j => o[i] # o[j]}

\* name.chars().all(|c| c.is_alphanumeric() || c == '-' || c == '_')
NameCharsetOk(name) ==
    \A i \in 1..Len(name) : is_alphanumeric(name[i]) \/ name[i] = "-" \/ name[i] = "_"

RECURSIVE validate_script_paths(_, _, _)
\* lines 142-149: the scripts map, visited in iteration order `order`
validate_script_paths(scripts, order, i) ==
    IF i > Len(order) THEN Ok(Unit)
    ELSE IF scripts[order[i]] = <<>>
         THEN Err(ManifestValidation(<<"Script '", order[i], "' has empty path">>))
         ELSE validate_script_paths(scripts, order, i + 1)

\* lines 153-173: the three checks of one dependency
validate_dependency_entry(dependency) ==
    IF dependency.name = <<>>
    THEN Err(InvalidDependency(<<>>, <<"Dependency name cannot be empty">>))
    ELSE IF dependency.version = <<>>
    THEN Err(InvalidDependency(dependency.name, <<"Dependency version cannot be empty">>))
    ELSE IF IsErr(VersionNew(dependency.version))
    THEN Err(InvalidDependency(dependency.name,
                               <<"Invalid version format: ">> \o dependency.version))
    ELSE Ok(Unit)

RECURSIVE validate_dependency_entries(_, _)
validate_dependency_entries(dependencies, i) ==
    IF i > Len(dependencies) THEN Ok(Unit)
    ELSE IF IsErr(validate_dependency_entry(dependencies[i]))
         THEN validate_dependency_entry(dependencies[i])
         ELSE validate_dependency_entries(dependencies, i + 1)

\* validate with the "default" key looked up before the name and the version
validate_default_key_first(self, order) ==
    IF "default" \notin DOMAIN self.scripts
    THEN Err(MissingDefaultScript)
    ELSE IF self.name = <<>>
    THEN Err(ManifestValidation(<<"Container name cannot be empty">>))
    ELSE IF ~NameCharsetOk(self.name)
    THEN Err(ManifestValidation(
             <<"Container name can only contain alphanumeric characters, hyphens, and underscores">>))
    ELSE IF IsErr(VersionValidate(self.version))
    THEN VersionValidate(self.version)
    ELSE IF IsErr(validate_script_paths(self.scripts, order, 1))
    THEN validate_script_paths(self.scripts, order, 1)
    ELSE validate_dependency_entries(self.dependencies, 1)

\* validate with the script paths visited before the "default" key is looked up
validate_paths_first(self, order) ==
    IF self.name = <<>>
    THEN Err(ManifestValidation(<<"Container name cannot be empty">>))
    ELSE IF ~NameCharsetOk(self.name)
    THEN Err(ManifestValidation(
             <<"Container name can only contain alphanumeric characters, hyphens, and underscores">>))
    ELSE IF IsErr(VersionValidate(self.version))
    THEN VersionValidate(self.version)
    ELSE IF IsErr(validate_script_paths(self.scripts, order, 1))
    THEN validate_script_paths(self.scripts, order, 1)
    ELSE IF "default" \notin DOMAIN self.scripts
    THEN Err(MissingDefaultScript)
    ELSE validate_dependency_entries(self.dependencies, 1)

\* ContainerManifest::validate; `order` is the iteration order of self.scripts
validate(self, order) ==
    IF self.name = <<>>
    THEN Err(ManifestValidation(<<"Container name cannot be empty">>))
    ELSE IF ~NameCharsetOk(self.name)
    THEN Err(ManifestValidation(
             <<"Container name can only contain alphanumeric characters, hyphens, and underscores">>))
    ELSE IF IsErr(VersionValidate(self.version))
    THEN VersionValidate(self.version)
    ELSE IF "default" \notin DOMAIN self.scripts
    THEN Err(MissingDefaultScript)
    ELSE IF IsErr(validate_script_paths(self.scripts, order, 1))
    THEN validate_script_paths(self.scripts, order, 1)
    ELSE validate_dependency_entries(self.dependencies, 1)

\* ContainerRuntime::default(), with the Uuid::new_v4() drawn as `id`
ContainerRuntimeDefault(id) ==
    [id |-> id,
     status |-> "Ready",
     pid |-> None,
     started_at |-> None,
     stopped_at |-> None,
     exit_code |-> None,
     errors |-> <<>>]

\* the struct literal of create_container, lines 72-78
ContainerValue(m, path, id, t) ==
    [manifest |-> m,
     path |-> path,
     runtime |-> ContainerRuntimeDefault(id),
     installed_at |-> t,
     last_accessed |-> t]

(***************************************************************************)
(* Dependency version check (features/container/service.rs).               *)
(***************************************************************************)
ConflictText(name, package_version, required_version) ==
    <<"Package '">> \o name \o <<"' version ">> \o package_version
        \o <<" is not compatible with required version ">> \o required_version

validate_single_dependency(dependency, available_packages) ==
    IF dependency.name \notin DOMAIN available_packages
    THEN Err(PackageNotFound(dependency.name))
    ELSE IF IsErr(VersionNew(dependency.version))
    THEN VersionNew(dependency.version)
    ELSE IF ~is_compatible_with(available_packages[dependency.name],
                                VersionNew(dependency.version).val)
    THEN Err(VersionConflict(ConflictText(dependency.name,
                                          available_packages[dependency.name],
                                          VersionNew(dependency.version).val)))
    ELSE Ok(Unit)

RECURSIVE validate_from(_, _, _)
\* the for loop of validate_dependencies from index i on: `?` leaves at the first error
validate_from(dependencies, i, available_packages) ==
    IF i > Len(dependencies) THEN Ok(Unit)
    ELSE IF IsErr(validate_single_dependency(dependencies[i], available_packages))
         THEN validate_single_dependency(dependencies[i], available_packages)
         ELSE validate_from(dependencies, i + 1, available_packages)

RECURSIVE validate_until(_, _, _)
\* a loop that keeps the error of the last failing dependency
validate_until(dependencies, i, available_packages) ==
    IF i < 1 THEN Ok(Unit)
    ELSE IF IsErr(validate_single_dependency(dependencies[i], available_packages))
         THEN validate_single_dependency(dependencies[i], available_packages)
         ELSE validate_until(dependencies, i - 1, available_packages)

validate_dependencies_last_error(c, available_packages) ==
    validate_until(c.manifest.dependencies, Len(c.manifest.dependencies), available_packages)
validate_dependencies(c, available_packages) ==
    validate_from(c.manifest.dependencies, 1, available_packages)

(***************************************************************************)
(* A container with declared dependencies, checked against a package map.  *)
(***************************************************************************)
MaxDeps == 2

Pkg == <<"p", "k", "g">>
Lib == <<"a", "b">>
V(major, minor, patch) == FormatParts(<<major>>, <<minor>>, <<patch>>)
VHuge == FormatParts(U32MaxPlusOne, <<"0">>, <<"0">>)

PackageNames == {Pkg, Lib}
\* version strings a dependency may declare; the last one does not parse
RequiredVersionStrings == {V("1", "0", "0"), V("1", "2", "3"), VHuge, <<"1", ".", "0">>}
\* Version values of available packages, each built by Version::new
AvailableVersions ==
    {v \in {V("1", "2", "0"), V("0", "9", "0"), V("1", "0", "0"), VHuge} : IsOk(VersionNew(v))}

DependencyInputs ==
    {Dependency(n, v, o) : n \in PackageNames, v \in RequiredVersionStrings, o \in BOOLEAN}

SeqsUpTo(S, n) == UNION {[1..k -> S] : k \in 0..n}

PackageMaps == UNION {[D -> AvailableVersions] : D \in SUBSET PackageNames}

AppName == <<"a", "p", "p">>
AppPath == <<"opt", "app">>

\* container.validate_dependencies(&available)
ValidateDependenciesCall ==
    /\ last' = [op |-> "validate_dependencies",
                res |-> validate_dependencies(container.val, available)]
    /\ UNCHANGED <<containers, manifest, available, fs, container, now, input>>

InitDeps ==
    /\ containers = <<>>
    /\ manifest = None
    /\ fs = None
    /\ now = 0
    /\ input = None
    /\ last = Idle
    /\ available \in PackageMaps
    /\ \E deps \in SeqsUpTo(DependencyInputs, MaxDeps) :
          container = Some(ContainerValue(
              [ContainerManifestNew(AppName, V("1", "0", "0")) EXCEPT !.dependencies = deps],
              AppPath, 1, 0))

NextDeps == ValidateDependenciesCall

SpecDeps == InitDeps /\ [][NextDeps]_vars

(***************************************************************************)
(* Properties of the dependency version check.                             *)
(***************************************************************************)
IsValidateDeps == last.op = "validate_dependencies"
DeclaredDeps == container.val.manifest.dependencies

\* C3: validate_dependencies returns Ok exactly when every declared dependency
\* (optional ones included) names an available package whose version has the
\* major of the required version and is >= it in (major, minor, patch) order.
C3_OkIffAllAvailableAndCompatible ==
    IsValidateDeps =>
        (IsOk(last.res) <=>
            \A i \in 1..Len(DeclaredDeps) :
                /\ DeclaredDeps[i].name \in DOMAIN available
                /\ SameMajorAndNotOlder(available[DeclaredDeps[i].name],
                                        DeclaredDeps[i].version))

\* the dependency passes the check of the code
Passes(d) ==
    /\ d.name \in DOMAIN available
    /\ IsOk(VersionNew(d.version))
    /\ is_compatible_with(available[d.name], d.version)

RECURSIVE IsInfix(_, _)
IsInfix(sub, text) ==
    \/ Len(sub) <= Len(text) /\ SubSeq(text, 1, Len(sub)) = sub
    \/ text # <<>> /\ IsInfix(sub, Tail(text))

\* C4: a failed validate_dependencies returns the error of the first dependency,
\* in declaration order, that does not pass: PackageNotFound{name} when the name
\* is not available, VersionConflict naming the package, the found and the
\* required version when the name is available and the required version is not
\* satisfied (InvalidVersion when the required version string does not parse).
\* Available pkg 0.9.0 against required 1.0.0 is a VersionConflict, available
\* pkg 1.2.0 passes.
C4_FirstFailingDependency ==
    IsValidateDeps =>
        /\ IsErr(last.res) <=> \E i \in 1..Len(DeclaredDeps) : ~Passes(DeclaredDeps[i])
        /\ IsErr(last.res) =>
            LET i == CHOOSE i \in 1..Len(DeclaredDeps) :
                        /\ ~Passes(DeclaredDeps[i])
                        /\ \A j \in 1..(i - 1) : Passes(DeclaredDeps[j])
                d == DeclaredDeps[i]
                e == last.res.err
            IN  /\ d.name \notin DOMAIN available =>
                        e = PackageNotFound(d.name)
                /\ (d.name \in DOMAIN available /\ IsOk(VersionNew(d.version))) =>
                        /\ e.kind = "VersionConflict"
                        /\ IsInfix(d.name, e.conflict)
                        /\ IsInfix(available[d.name], e.conflict)
                        /\ IsInfix(d.version, e.conflict)
                /\ (d.name \in DOMAIN available /\ IsErr(VersionNew(d.version))) =>
                        e = InvalidVersion(d.version)
        /\ (DeclaredDeps = <<Dependency(Pkg, V("1", "0", "0"), FALSE)>>
                /\ available = (Pkg :> V("0", "9", "0")))
            => (IsErr(last.res) /\ last.res.err.kind = "VersionConflict")
        /\ (DeclaredDeps = <<Dependency(Pkg, V("1", "0", "0"), FALSE)>>
                /\ available = (Pkg :> V("1", "2", "0")))
            => IsOk(last.res)

\* two failing dependencies: the first is a version conflict, the second is missing
C4_Witness ==
    /\ IsValidateDeps
    /\ Len(DeclaredDeps) = 2
    /\ DeclaredDeps[1].name \in DOMAIN available
    /\ DeclaredDeps[2].name \notin DOMAIN available
    /\ IsErr(last.res)
    /\ last.res.err.kind = "VersionConflict"

(***************************************************************************)
(* Manifests as callers hand them to validate: built by                    *)
(* ContainerManifest::new and changed through the public fields, or        *)
(* deserialized (a deserialized version string is not checked).            *)
(***************************************************************************)
ManifestNames ==
    {<<>>, AppName, <<"a", "-", "b", "_", "1">>, <<"a", "@">>, <<"U00E9">>}

ManifestVersions == {V("1", "0", "0"), <<"1", ".", "0">>}

ScriptNames == {"default", "build"}
ScriptPaths == {<<>>, DefaultScriptPath, <<"scripts", "build.sh">>}
ScriptMaps == UNION {[D -> ScriptPaths] : D \in SUBSET ScriptNames}

ManifestDependencyInputs ==
    {Dependency(n, v, FALSE) :
        n \in {<<>>, Pkg}, v \in {<<>>, V("1", "0", "0"), <<"1", ".", "0">>}}

ManifestInputs ==
    {[ContainerManifestNew(n, v) EXCEPT !.scripts = sc, !.dependencies = deps] :
        n \in ManifestNames, v \in ManifestVersions, sc \in ScriptMaps,
        deps \in SeqsUpTo(ManifestDependencyInputs, MaxDeps)}

\* manifest.validate()
ValidateCall ==
    /\ \E order \in IterationOrders(DOMAIN manifest.scripts) :
          last' = [op |-> "validate", res |-> validate(manifest, order)]
    /\ UNCHANGED <<containers, manifest, available, fs, container, now, input>>

InitManifest ==
    /\ containers = <<>>
    /\ available = None
    /\ fs = None
    /\ container = None
    /\ now = 0
    /\ input = None
    /\ last = Idle
    /\ manifest \in ManifestInputs

NextManifest == ValidateCall

SpecManifest == InitManifest /\ [][NextManifest]_vars

(***************************************************************************)
(* Properties of manifest validation.                                      *)
(***************************************************************************)
IsValidate == last.op = "validate"

NameGiven == manifest.name # <<>>
NameInCharset == NameCharsetOk(manifest.name)
VersionValid == IsOk(VersionValidate(manifest.version))
HasDefault == "default" \in DOMAIN manifest.scripts
EmptyPathScripts == {k \in DOMAIN manifest.scripts : manifest.scripts[k] = <<>>}

DependencyDefective(d) ==
    d.name = <<>> \/ d.version = <<>> \/ IsErr(VersionNew(d.version))

FirstDefective ==
    CHOOSE i \in 1..Len(manifest.dependencies) :
        /\ DependencyDefective(manifest.dependencies[i])
        /\ \A j \in 1..(i - 1) : ~DependencyDefective(manifest.dependencies[j])

DependenciesSound ==
    \A i \in 1..Len(manifest.dependencies) : ~DependencyDefective(manifest.dependencies[i])

\* C6: validate returns Ok exactly when every check passes, and otherwise the
\* error of the first failing check in the order: name non-empty, name charset,
\* version valid, "default" key present, every script path non-empty, then the
\* dependencies in list order, each for non-empty name, non-empty version and
\* parseable version.  An empty name gives ManifestValidation whatever else is
\* wrong.
C6_FirstFailingCheck ==
    IsValidate =>
        LET r == last.res IN
        /\ IsOk(r) <=> /\ NameGiven /\ NameInCharset /\ VersionValid /\ HasDefault
                       /\ EmptyPathScripts = {} /\ DependenciesSound
        /\ ~NameGiven =>
              r = Err(ManifestValidation(<<"Container name cannot be empty">>))
        /\ (NameGiven /\ ~NameInCharset) =>
              (IsErr(r) /\ r.err.kind = "ManifestValidation"
                 /\ r.err.msg # <<"Container name cannot be empty">>)
        /\ (NameGiven /\ NameInCharset /\ ~VersionValid) =>
              r = Err(InvalidVersion(manifest.version))
        /\ (NameGiven /\ NameInCharset /\ VersionValid /\ ~HasDefault) =>
              r = Err(MissingDefaultScript)
        /\ (NameGiven /\ NameInCharset /\ VersionValid /\ HasDefault
                /\ EmptyPathScripts # {}) =>
              \E k \in EmptyPathScripts :
                  r = Err(ManifestValidation(<<"Script '", k, "' has empty path">>))
        /\ (NameGiven /\ NameInCharset /\ VersionValid /\ HasDefault
                /\ EmptyPathScripts = {} /\ ~DependenciesSound) =>
              LET d == manifest.dependencies[FirstDefective] IN
              /\ IsErr(r)
              /\ r.err.kind = "InvalidDependency"
              /\ d.name = <<>> => (r.err.package = <<>>
                                    /\ r.err.reason = <<"Dependency name cannot be empty">>)
              /\ (d.name # <<>> /\ d.version = <<>>) =>
                    (r.err.package = d.name
                       /\ r.err.reason = <<"Dependency version cannot be empty">>)
              /\ (d.name # <<>> /\ d.version # <<>>) =>
                    (r.err.package = d.name
                       /\ r.err.reason = <<"Invalid version format: ">> \o d.version)

\* an empty name together with an invalid version, no "default" key, an empty
\* script path and a defective dependency
C6_Witness ==
    /\ IsValidate
    /\ ~NameGiven /\ ~VersionValid /\ ~HasDefault /\ EmptyPathScripts # {}
    /\ ~DependenciesSound
    /\ last.res.err.kind = "ManifestValidation"

\* C7 as stated: without a "default" key validate fails with exactly
\* MissingDefaultScript, whatever the other fields are.
C7_MissingDefaultAlways ==
    (IsValidate /\ ~HasDefault) => last.res = Err(MissingDefaultScript)

\* C7 amended: without a "default" key, and with a name that is non-empty and in
\* the charset and a valid version, validate fails with exactly
\* MissingDefaultScript, whatever the other scripts and the dependencies are;
\* with a defective name or version the error is that earlier check's.
C7_MissingDefaultAfterNameAndVersion ==
    (IsValidate /\ ~HasDefault) =>
        /\ (NameGiven /\ NameInCharset /\ VersionValid) =>
                last.res = Err(MissingDefaultScript)
        /\ ~(NameGiven /\ NameInCharset /\ VersionValid) =>
                (IsErr(last.res)
                   /\ last.res.err.kind \in {"ManifestValidation", "InvalidVersion"})

\* no "default" key, another script with an empty path and a defective dependency
C7_Witness ==
    /\ IsValidate
    /\ ~HasDefault
    /\ EmptyPathScripts # {}
    /\ ~DependenciesSound
    /\ last.res = Err(MissingDefaultScript)

(***************************************************************************)
(* Structure validation and the factory (features/container/service.rs).   *)
(* The directory tree at the container path is [root, paths]: what the     *)
(* path itself is ("missing", "file" or "dir") and the set of relative     *)
(* paths that exist below it.  Script paths are relative to the container  *)
(* root, and the empty script path joins to the root itself.               *)
(***************************************************************************)
InvalidStructure(msg) == [kind |-> "InvalidStructure", msg |-> msg]
InvalidPath(path, reason) == [kind |-> "InvalidPath", path |-> path, reason |-> reason]
ScriptNotFound(c, script) == [kind |-> "ScriptNotFound", container |-> c, script |-> script]

\* path.join(rel).exists()
Exists(tree, rel) ==
    IF rel = <<>> THEN tree.root = "dir"
    ELSE tree.root = "dir" /\ rel \in tree.paths

validate_path_exists(path, tree) ==
    IF tree.root = "missing"
    THEN Err(InvalidPath(path, <<"Path does not exist">>))
    ELSE IF tree.root # "dir"
    THEN Err(InvalidStructure(<<"Container path must be a directory">>))
    ELSE Ok(Unit)

required_dirs == <<"scripts", "content", "config">>

RECURSIVE validate_required_directories(_, _)
validate_required_directories(tree, i) ==
    IF i > Len(required_dirs) THEN Ok(Unit)
    ELSE IF ~Exists(tree, <<required_dirs[i]>>)
         THEN Err(InvalidStructure(<<"Required directory '", required_dirs[i], "' not found">>))
         ELSE validate_required_directories(tree, i + 1)

validate_manifest_file_exists(tree) ==
    IF ~Exists(tree, <<"manifest.json">>)
    THEN Err(InvalidStructure(<<"manifest.json not found">>))
    ELSE Ok(Unit)

\* manifest.default_script()? and the existence of the path it names
validate_default_script_exists(tree, m) ==
    IF "default" \notin DOMAIN m.scripts THEN Err(MissingDefaultScript)
    ELSE IF ~Exists(tree, m.scripts["default"]) THEN Err(MissingDefaultScript)
    ELSE Ok(Unit)

RECURSIVE validate_all_scripts_exist(_, _, _, _)
validate_all_scripts_exist(tree, m, order, i) ==
    IF i > Len(order) THEN Ok(Unit)
    ELSE IF ~Exists(tree, m.scripts[order[i]])
         THEN Err(ScriptNotFound(m.name, order[i]))
         ELSE validate_all_scripts_exist(tree, m, order, i + 1)

validate_scripts_exist(tree, m, order) ==
    IF IsErr(validate_default_script_exists(tree, m))
    THEN validate_default_script_exists(tree, m)
    ELSE validate_all_scripts_exist(tree, m, order, 1)

validate_config_files_exist(tree) ==
    IF ~Exists(tree, <<"config", "permissions.json">>)
    THEN Err(InvalidStructure(<<"config/permissions.json not found">>))
    ELSE IF ~Exists(tree, <<"config", "environment.json">>)
    THEN Err(InvalidStructure(<<"config/environment.json not found">>))
    ELSE Ok(Unit)

\* validate_structure with the scripts looked at before the required directories
validate_structure_scripts_first(path, m, tree, order) ==
    IF IsErr(validate_path_exists(path, tree)) THEN validate_path_exists(path, tree)
    ELSE IF IsErr(validate_scripts_exist(tree, m, order))
    THEN validate_scripts_exist(tree, m, order)
    ELSE IF IsErr(validate_required_directories(tree, 1))
    THEN validate_required_directories(tree, 1)
    ELSE IF IsErr(validate_manifest_file_exists(tree))
    THEN validate_manifest_file_exists(tree)
    ELSE validate_config_files_exist(tree)

\* ContainerService::validate_structure; `order` is the iteration order of m.scripts
validate_structure(path, m, tree, order) ==
    IF IsErr(validate_path_exists(path, tree)) THEN validate_path_exists(path, tree)
    ELSE IF IsErr(validate_required_directories(tree, 1))
    THEN validate_required_directories(tree, 1)
    ELSE IF IsErr(validate_manifest_file_exists(tree))
    THEN validate_manifest_file_exists(tree)
    ELSE IF IsErr(validate_scripts_exist(tree, m, order))
    THEN validate_scripts_exist(tree, m, order)
    ELSE validate_config_files_exist(tree)

\* a factory whose Container has a last_accessed of its own
create_container_later_access(m, path, tree, order, id, t) ==
    IF IsErr(validate(m, order)) THEN validate(m, order)
    ELSE IF IsErr(validate_structure(path, m, tree, order))
    THEN validate_structure(path, m, tree, order)
    ELSE Ok([ContainerValue(m, path, id, t) EXCEPT !.last_accessed = t + 1])

\* a factory that looks at the directory before the manifest
create_container_structure_first(m, path, tree, order, id, t) ==
    IF IsErr(validate_structure(path, m, tree, order))
    THEN validate_structure(path, m, tree, order)
    ELSE IF IsErr(validate(m, order)) THEN validate(m, order)
    ELSE Ok(ContainerValue(m, path, id, t))

\* ContainerService::create_container; both validators iterate the same scripts
\* map, `id` is the Uuid drawn by ContainerRuntime::default(), `t` is Utc::now()
create_container(m, path, tree, order, id, t) ==
    IF IsErr(validate(m, order)) THEN validate(m, order)
    ELSE IF IsErr(validate_structure(path, m, tree, order))
    THEN validate_structure(path, m, tree, order)
    ELSE Ok(ContainerValue(m, path, id, t))

(***************************************************************************)
(* A manifest and a directory handed to the structure validator and to the *)
(* factory.                                                                *)
(***************************************************************************)
MaxClock == 2

BuildScriptPath == <<"scripts", "build.sh">>
TestScriptPath == <<"scripts", "test.sh">>

TreePaths ==
    { <<"scripts">>, <<"content">>, <<"config">>, <<"manifest.json">>,
      DefaultScriptPath, BuildScriptPath, TestScriptPath,
      <<"config", "permissions.json">>, <<"config", "environment.json">> }

\* what exists below an existing directory: a file lies in an existing directory
Trees ==
    {[root |-> "missing", paths |-> {}], [root |-> "file", paths |-> {}]}
    \cup {[root |-> "dir", paths |-> P] :
            P \in {Q \in SUBSET TreePaths : \A q \in Q : Len(q) = 2 => <<q[1]>> \in Q}}

DeclaredScriptMaps ==
    {sc \in UNION {[D -> {<<>>, DefaultScriptPath, BuildScriptPath, TestScriptPath}] :
                      D \in SUBSET {"default", "build", "test"}} :
        /\ "default" \in DOMAIN sc => sc["default"] \in {<<>>, DefaultScriptPath}
        /\ "build" \in DOMAIN sc => sc["build"] \in {<<>>, BuildScriptPath}
        /\ "test" \in DOMAIN sc => sc["test"] = TestScriptPath}

FactoryManifests ==
    {[ContainerManifestNew(n, v) EXCEPT !.scripts = sc, !.dependencies = deps] :
        n \in {AppName, <<>>},
        v \in ManifestVersions,
        sc \in DeclaredScriptMaps,
        deps \in {<<>>, <<Dependency(Pkg, <<>>, FALSE)>>}}

Uuids == {"uuid-1", "uuid-2"}

\* ContainerService::validate_structure(&path, &manifest)
ValidateStructureCall ==
    /\ \E order \in IterationOrders(DOMAIN manifest.scripts) :
          last' = [op |-> "validate_structure",
                   res |-> validate_structure(AppPath, manifest, fs, order)]
    /\ UNCHANGED <<containers, manifest, available, fs, container, now, input>>

\* let c = Container::new(manifest, path): c is bound only when the call returns Ok
CreateContainerCall ==
    /\ \E order \in IterationOrders(DOMAIN manifest.scripts), id \in Uuids :
          LET r == create_container(manifest, AppPath, fs, order, id, now)
          IN  /\ last' = [op |-> "create_container", res |-> r]
              /\ container' = IF IsOk(r) THEN Some(r.val) ELSE container
    /\ UNCHANGED <<containers, manifest, available, fs, now, input>>

InitCreate ==
    /\ containers = <<>>
    /\ available = None
    /\ container = None
    /\ input = None
    /\ last = Idle
    /\ now \in 1..MaxClock
    /\ manifest \in FactoryManifests
    /\ fs \in Trees

NextCreate ==
    \/ ValidateStructureCall
    \/ CreateContainerCall

SpecCreate == InitCreate /\ [][NextCreate]_vars

(***************************************************************************)
(* Properties of the structure validator and of the factory.               *)
(***************************************************************************)
IsValidateStructure == last.op = "validate_structure"
IsCreate == last.op = "create_container"

PathExists == fs.root # "missing"
PathIsDir == fs.root = "dir"
OnDisk(rel) == PathIsDir /\ (rel = <<>> \/ rel \in fs.paths)
MissingDirs == {i \in 1..3 : ~OnDisk(<<<<"scripts", "content", "config">>[i]>>)}
FirstMissingDir ==
    <<"scripts", "content", "config">>
        [CHOOSE i \in MissingDirs : \A j \in MissingDirs : i <= j]
ManifestFileOnDisk == OnDisk(<<"manifest.json">>)
DefaultScriptOnDisk == HasDefault /\ OnDisk(manifest.scripts["default"])
MissingScripts == {k \in DOMAIN manifest.scripts : ~OnDisk(manifest.scripts[k])}
PermissionsOnDisk == OnDisk(<<"config", "permissions.json">>)
EnvironmentOnDisk == OnDisk(<<"config", "environment.json">>)

DirsAndManifestFile == PathIsDir /\ MissingDirs = {} /\ ManifestFileOnDisk
ScriptsOnDisk == DefaultScriptOnDisk /\ MissingScripts = {}

LayoutValid ==
    /\ DirsAndManifestFile /\ ScriptsOnDisk
    /\ PermissionsOnDisk /\ EnvironmentOnDisk

ManifestValid ==
    /\ NameGiven /\ NameInCharset /\ VersionValid /\ HasDefault
    /\ EmptyPathScripts = {} /\ DependenciesSound

\* C8: validate_structure returns Ok exactly when every layout check passes, and
\* otherwise the error of the first failing check in the order: the path exists
\* (InvalidPath), it is a directory (InvalidStructure), scripts/, content/ and
\* config/ exist (InvalidStructure naming the first missing one), manifest.json
\* exists (InvalidStructure), the "default" script path exists
\* (MissingDefaultScript), every declared script path exists (ScriptNotFound),
\* config/permissions.json then config/environment.json exist
\* (InvalidStructure).  So below an existing path a missing required directory
\* gives InvalidStructure whichever script files exist.
C8_FirstFailingLayoutCheck ==
    IsValidateStructure =>
        LET r == last.res IN
        /\ IsOk(r) <=> LayoutValid
        /\ ~PathExists => r = Err(InvalidPath(AppPath, <<"Path does not exist">>))
        /\ (PathExists /\ ~PathIsDir) =>
              r = Err(InvalidStructure(<<"Container path must be a directory">>))
        /\ (PathIsDir /\ MissingDirs # {}) =>
              r = Err(InvalidStructure(
                        <<"Required directory '", FirstMissingDir, "' not found">>))
        /\ (PathIsDir /\ MissingDirs = {} /\ ~ManifestFileOnDisk) =>
              r = Err(InvalidStructure(<<"manifest.json not found">>))
        /\ (DirsAndManifestFile /\ ~DefaultScriptOnDisk) =>
              r = Err(MissingDefaultScript)
        /\ (DirsAndManifestFile /\ DefaultScriptOnDisk /\ MissingScripts # {}) =>
              \E k \in MissingScripts : r = Err(ScriptNotFound(manifest.name, k))
        /\ (DirsAndManifestFile /\ ScriptsOnDisk /\ ~PermissionsOnDisk) =>
              r = Err(InvalidStructure(<<"config/permissions.json not found">>))
        /\ (DirsAndManifestFile /\ ScriptsOnDisk /\ PermissionsOnDisk
                /\ ~EnvironmentOnDisk) =>
              r = Err(InvalidStructure(<<"config/environment.json not found">>))
        /\ (PathExists /\ MissingDirs # {}) =>
              (IsErr(r) /\ r.err.kind = "InvalidStructure")

\* scripts/ is there without the declared default script, content/ and
\* manifest.json are missing, and the error names content
C8_Witness ==
    /\ IsValidateStructure
    /\ PathIsDir /\ MissingDirs = {2} /\ ~ManifestFileOnDisk
    /\ HasDefault /\ ~DefaultScriptOnDisk /\ MissingScripts # {}
    /\ last.res = Err(InvalidStructure(<<"Required directory '", "content", "' not found">>))

\* C9: create_container returns a Container exactly when the manifest checks and
\* the layout checks all pass; the Container holds the given manifest and path,
\* has status Ready, no pid, started_at, stopped_at or exit_code, no errors, and
\* installed_at = last_accessed = the time of the call.
C9_ContainerIffBothValid ==
    IsCreate =>
        /\ IsOk(last.res) <=> (ManifestValid /\ LayoutValid)
        /\ IsOk(last.res) =>
              LET c == last.res.val IN
              /\ container = Some(c)
              /\ c.manifest = manifest
              /\ c.path = AppPath
              /\ c.runtime.status = "Ready"
              /\ c.runtime.pid = None
              /\ c.runtime.started_at = None
              /\ c.runtime.stopped_at = None
              /\ c.runtime.exit_code = None
              /\ c.runtime.errors = <<>>
              /\ c.installed_at = c.last_accessed
              /\ c.installed_at = now

\* a valid manifest with three scripts over a complete directory, at the later
\* of the clock readings
C9_Witness ==
    /\ IsCreate
    /\ ManifestValid /\ LayoutValid
    /\ DOMAIN manifest.scripts = {"default", "build", "test"}
    /\ now = MaxClock
    /\ IsOk(last.res)
    /\ container = Some(last.res.val)

\* C10: a failing create_container yields no Container, and its error is the
\* validator's own: the manifest validator's whenever the manifest is invalid,
\* also when the layout is invalid too, and otherwise the structure validator's.
C10_ValidatorErrorUnchanged ==
    (IsCreate /\ IsErr(last.res)) =>
        /\ container = None
        /\ "val" \notin DOMAIN last.res
        /\ ~ManifestValid =>
              \E order \in IterationOrders(DOMAIN manifest.scripts) :
                  last.res = validate(manifest, order)
        /\ ManifestValid =>
              \E order \in IterationOrders(DOMAIN manifest.scripts) :
                  last.res = validate_structure(AppPath, manifest, fs, order)

\* an invalid version and a path that does not exist: the error is the version's
C10_Witness ==
    /\ IsCreate
    /\ NameGiven /\ NameInCharset /\ ~VersionValid
    /\ ~PathExists
    /\ container = None
    /\ last.res = Err(InvalidVersion(manifest.version))

(***************************************************************************)
(* JSON documents and their deserialization (serde derive on the types of  *)
(* features/manifest/mod.rs, features/version/mod.rs and                   *)
(* features/container/service.rs).  A text is either malformed or denotes  *)
(* a JSON value; serde_json's error is kept as one opaque value.           *)
(***************************************************************************)
JNull == [j |-> "null"]
JString(s) == [j |-> "string", s |-> s]
JNumber(n) == [j |-> "number", n |-> n]
JBool(b) == [j |-> "bool", b |-> b]
JArray(a) == [j |-> "array", a |-> a]
JObject(o) == [j |-> "object", o |-> o]

MalformedText == [syntax |-> "malformed"]
JsonText(v) == [syntax |-> "json", value |-> v]

SerdeError == <<"serde_json::Error">>
InvalidManifest(msg) == [kind |-> "InvalidManifest", msg |-> msg]
JsonError(source) == [kind |-> "JsonError", source |-> source]
IoError(path, source) == [kind |-> "IoError", path |-> path, source |-> source]

EmptyMap == [k \in {} |-> <<>>]

\* a field of a JSON object, None when the key is absent
Field(v, k) == IF k \in DOMAIN v.o THEN Some(v.o[k]) ELSE None

de_String(v) == IF v.j = "string" THEN Ok(v.s) ELSE Err(SerdeError)
de_bool(v) == IF v.j = "bool" THEN Ok(v.b) ELSE Err(SerdeError)
de_number(v) == IF v.j = "number" THEN Ok(v.n) ELSE Err(SerdeError)

\* #[serde(transparent)] Version: the inner String, as it stands
de_Version(v) == de_String(v)

\* HashMap<String, String>
de_StringMap(v) ==
    IF v.j = "object" /\ \A k \in DOMAIN v.o : v.o[k].j = "string"
    THEN Ok([k \in DOMAIN v.o |-> v.o[k].s])
    ELSE Err(SerdeError)

\* Dependency: name and version required, optional defaults to false
de_Dependency(v) ==
    IF /\ v.j = "object"
       /\ "name" \in DOMAIN v.o /\ IsOk(de_String(v.o["name"]))
       /\ "version" \in DOMAIN v.o /\ IsOk(de_String(v.o["version"]))
       /\ "optional" \in DOMAIN v.o => IsOk(de_bool(v.o["optional"]))
    THEN Ok(Dependency(v.o["name"].s, v.o["version"].s,
                       IF "optional" \in DOMAIN v.o THEN v.o["optional"].b ELSE FALSE))
    ELSE Err(SerdeError)

de_Dependencies(v) ==
    IF v.j = "array" /\ \A i \in 1..Len(v.a) : IsOk(de_Dependency(v.a[i]))
    THEN Ok([i \in 1..Len(v.a) |-> de_Dependency(v.a[i]).val])
    ELSE Err(SerdeError)

\* ContainerManifest: name and version required, the rest #[serde(default)]
de_ContainerManifest(v) ==
    IF /\ v.j = "object"
       /\ "name" \in DOMAIN v.o /\ IsOk(de_String(v.o["name"]))
       /\ "version" \in DOMAIN v.o /\ IsOk(de_Version(v.o["version"]))
       /\ "description" \in DOMAIN v.o => IsOk(de_String(v.o["description"]))
       /\ "author" \in DOMAIN v.o => IsOk(de_String(v.o["author"]))
       /\ "scripts" \in DOMAIN v.o => IsOk(de_StringMap(v.o["scripts"]))
       /\ "dependencies" \in DOMAIN v.o => IsOk(de_Dependencies(v.o["dependencies"]))
       /\ "environment" \in DOMAIN v.o => IsOk(de_StringMap(v.o["environment"]))
       /\ "bindings" \in DOMAIN v.o => IsOk(de_String(v.o["bindings"]))
    THEN Ok([name |-> v.o["name"].s,
             version |-> de_Version(v.o["version"]).val,
             description |-> IF "description" \in DOMAIN v.o
                             THEN v.o["description"].s ELSE <<>>,
             author |-> IF "author" \in DOMAIN v.o THEN v.o["author"].s ELSE <<>>,
             scripts |-> IF "scripts" \in DOMAIN v.o
                         THEN de_StringMap(v.o["scripts"]).val ELSE EmptyMap,
             dependencies |-> IF "dependencies" \in DOMAIN v.o
                              THEN de_Dependencies(v.o["dependencies"]).val ELSE <<>>,
             environment |-> IF "environment" \in DOMAIN v.o
                             THEN de_StringMap(v.o["environment"]).val ELSE EmptyMap,
             bindings |-> IF "bindings" \in DOMAIN v.o
                          THEN v.o["bindings"].s ELSE "BindingsConfig::default"])
    ELSE Err(SerdeError)

\* serde_json::from_str::<ContainerManifest>(text)
manifest_from_str(text) ==
    IF text.syntax = "malformed" THEN Err(SerdeError) ELSE de_ContainerManifest(text.value)

\* serde_json::from_str::<Version>(text)
version_from_str(text) ==
    IF text.syntax = "malformed" THEN Err(SerdeError) ELSE de_Version(text.value)

(***************************************************************************)
(* Container documents: Container::to_json / Container::from_json.         *)
(***************************************************************************)
\* #[serde(rename_all = "lowercase")] ContainerStatus
StatusNames ==
    [Ready |-> "ready", Running |-> "running", Stopped |-> "stopped",
     Error |-> "error", Installing |-> "installing", Removing |-> "removing"]

ContainerStatuses == DOMAIN StatusNames

de_ContainerStatus(v) ==
    IF v.j = "string" /\ \E st \in ContainerStatuses : <<StatusNames[st]>> = v.s
    THEN Ok(CHOOSE st \in ContainerStatuses : <<StatusNames[st]>> = v.s)
    ELSE Err(SerdeError)

\* PathBuf <-> string: components joined by '/'
PathText(path) == Join([i \in 1..Len(path) |-> <<path[i]>>], <<"/">>)
PathOfText(text) ==
    LET parts == Split(text, "/")
    IN  [i \in 1..Len(parts) |-> IF parts[i] = <<>> THEN "" ELSE parts[i][1]]

\* DateTime<Utc> <-> RFC 3339 string
DateTimeText(t) == <<"1970-01-01T00:00:", ToString(t), "Z">>
IsDateTimeText(text) ==
    /\ Len(text) = 3 /\ text[1] = "1970-01-01T00:00:" /\ text[3] = "Z"
    /\ \E t \in 0..9 : ToString(t) = text[2]
DateTimeOfText(text) == CHOOSE t \in 0..9 : ToString(t) = text[2]

de_DateTime(v) ==
    IF v.j = "string" /\ IsDateTimeText(v.s) THEN Ok(DateTimeOfText(v.s))
    ELSE Err(SerdeError)

\* Option<u32> / Option<i32>: an absent key and null are None
de_OptionNumber(f) ==
    IF f = None \/ f.val = JNull THEN Ok(None)
    ELSE IF IsOk(de_number(f.val)) THEN Ok(Some(de_number(f.val).val))
    ELSE Err(SerdeError)

\* Option<DateTime<Utc>>
de_OptionDateTime(f) ==
    IF f = None \/ f.val = JNull THEN Ok(None)
    ELSE IF IsOk(de_DateTime(f.val)) THEN Ok(Some(de_DateTime(f.val).val))
    ELSE Err(SerdeError)

de_Strings(v) ==
    IF v.j = "array" /\ \A i \in 1..Len(v.a) : v.a[i].j = "string"
    THEN Ok([i \in 1..Len(v.a) |-> v.a[i].s])
    ELSE Err(SerdeError)

de_ContainerRuntime(v) ==
    IF /\ v.j = "object"
       /\ "id" \in DOMAIN v.o /\ IsOk(de_String(v.o["id"]))
       /\ "status" \in DOMAIN v.o /\ IsOk(de_ContainerStatus(v.o["status"]))
       /\ IsOk(de_OptionNumber(Field(v, "pid")))
       /\ IsOk(de_OptionDateTime(Field(v, "started_at")))
       /\ IsOk(de_OptionDateTime(Field(v, "stopped_at")))
       /\ IsOk(de_OptionNumber(Field(v, "exit_code")))
       /\ "errors" \in DOMAIN v.o /\ IsOk(de_Strings(v.o["errors"]))
    THEN Ok([id |-> v.o["id"].s[1],
             status |-> de_ContainerStatus(v.o["status"]).val,
             pid |-> de_OptionNumber(Field(v, "pid")).val,
             started_at |-> de_OptionDateTime(Field(v, "started_at")).val,
             stopped_at |-> de_OptionDateTime(Field(v, "stopped_at")).val,
             exit_code |-> de_OptionNumber(Field(v, "exit_code")).val,
             errors |-> de_Strings(v.o["errors"]).val])
    ELSE Err(SerdeError)

de_Container(v) ==
    IF /\ v.j = "object"
       /\ "manifest" \in DOMAIN v.o /\ IsOk(de_ContainerManifest(v.o["manifest"]))
       /\ "path" \in DOMAIN v.o /\ IsOk(de_String(v.o["path"]))
       /\ "runtime" \in DOMAIN v.o /\ IsOk(de_ContainerRuntime(v.o["runtime"]))
       /\ "installed_at" \in DOMAIN v.o /\ IsOk(de_DateTime(v.o["installed_at"]))
       /\ "last_accessed" \in DOMAIN v.o /\ IsOk(de_DateTime(v.o["last_accessed"]))
    THEN Ok([manifest |-> de_ContainerManifest(v.o["manifest"]).val,
             path |-> PathOfText(v.o["path"].s),
             runtime |-> de_ContainerRuntime(v.o["runtime"]).val,
             installed_at |-> de_DateTime(v.o["installed_at"]).val,
             last_accessed |-> de_DateTime(v.o["last_accessed"]).val])
    ELSE Err(SerdeError)

ser_OptionNumber(x) == IF x = None THEN JNull ELSE JNumber(x.val)
ser_DateTime(t) == JString(DateTimeText(t))
ser_OptionDateTime(x) == IF x = None THEN JNull ELSE ser_DateTime(x.val)
ser_StringMap(m) == JObject([k \in DOMAIN m |-> JString(m[k])])
ser_Dependency(d) ==
    JObject([name |-> JString(d.name), version |-> JString(d.version),
             optional |-> JBool(d.optional)])

ser_ContainerManifest(m) ==
    JObject([name |-> JString(m.name),
             version |-> JString(m.version),
             description |-> JString(m.description),
             author |-> JString(m.author),
             scripts |-> ser_StringMap(m.scripts),
             dependencies |-> JArray([i \in 1..Len(m.dependencies) |->
                                         ser_Dependency(m.dependencies[i])]),
             environment |-> ser_StringMap(m.environment),
             bindings |-> JString(m.bindings)])

ser_ContainerRuntime(r) ==
    JObject([id |-> JString(<<r.id>>),
             status |-> JString(<<StatusNames[r.status]>>),
             pid |-> ser_OptionNumber(r.pid),
             started_at |-> ser_OptionDateTime(r.started_at),
             stopped_at |-> ser_OptionDateTime(r.stopped_at),
             exit_code |-> ser_OptionNumber(r.exit_code),
             errors |-> JArray([i \in 1..Len(r.errors) |-> JString(r.errors[i])])])

\* Container::to_json: serialization of these types does not fail
to_json(c) ==
    Ok(JsonText(JObject([manifest |-> ser_ContainerManifest(c.manifest),
                         path |-> JString(PathText(c.path)),
                         runtime |-> ser_ContainerRuntime(c.runtime),
                         installed_at |-> ser_DateTime(c.installed_at),
                         last_accessed |-> ser_DateTime(c.last_accessed)])))

\* Container::from_json
from_json(json) ==
    IF json.syntax = "malformed" \/ IsErr(de_Container(json.value))
    THEN Err(JsonError(SerdeError))
    ELSE de_Container(json.value)

(***************************************************************************)
(* Loading from a directory.  The tree also carries what manifest.json     *)
(* holds: "absent", "unreadable" (a directory, not UTF-8, no permission)   *)
(* or a text.                                                              *)
(***************************************************************************)
\* std::fs::read_to_string(path.join("manifest.json"))
read_to_string(tree, rel) ==
    IF ~Exists(tree, rel) THEN Err("NotFound")
    ELSE IF tree.manifest_json.kind # "text" THEN Err("Other")
    ELSE Ok(tree.manifest_json.text)

\* ContainerManifest::from_file(base.join(rel)), read off the tree at base
from_file(base, rel, tree, order) ==
    LET content == read_to_string(tree, rel)
        parsed == manifest_from_str(content.val)
    IN  IF IsErr(content) THEN Err(IoError(base \o rel, content.err))
        ELSE IF IsErr(parsed) THEN Err(InvalidManifest(parsed.err))
        ELSE IF IsErr(validate(parsed.val, order)) THEN validate(parsed.val, order)
        ELSE parsed

load_manifest(path, tree, order) == from_file(path, <<"manifest.json">>, tree, order)

\* load_from_directory reading the manifest before it looks at the path
load_from_directory_manifest_first(path, tree, order, id, t) ==
    LET loaded == load_manifest(path, tree, order)
    IN  IF IsErr(loaded) THEN loaded
        ELSE IF IsErr(validate_path_exists(path, tree)) THEN validate_path_exists(path, tree)
        ELSE create_container(loaded.val, path, tree, order, id, t)

\* ContainerService::load_from_directory; `order` is the iteration order of the
\* scripts map of the manifest that was read
load_from_directory(path, tree, order, id, t) ==
    LET loaded == load_manifest(path, tree, order)
    IN  IF IsErr(validate_path_exists(path, tree)) THEN validate_path_exists(path, tree)
        ELSE IF IsErr(loaded) THEN loaded
        ELSE create_container(loaded.val, path, tree, order, id, t)

(***************************************************************************)
(* The public constructors of Container: Container::new,                   *)
(* Container::from_directory and Container::from_json.                     *)
(***************************************************************************)
ValidManifest == ContainerManifestNew(AppName, V("1", "0", "0"))

\* manifests written to manifest.json or embedded in a Container document
DocumentManifests ==
    { ValidManifest,
      [ValidManifest EXCEPT !.scripts = ("default" :> DefaultScriptPath)
                                         @@ ("build" :> BuildScriptPath)],
      [ValidManifest EXCEPT !.version = <<"1", ".", "0">>],
      [ValidManifest EXCEPT !.name = <<>>],
      [ValidManifest EXCEPT !.scripts = EmptyMap],
      [ValidManifest EXCEPT !.dependencies = <<Dependency(Pkg, <<>>, FALSE)>>] }

ManifestDocuments ==
    { MalformedText,
      JsonText(JArray(<<>>)),
      JsonText(JObject([name |-> JString(AppName)])),
      JsonText(JObject([name |-> JString(AppName),
                        version |-> JString(V("1", "0", "0"))])) }
    \cup {JsonText(ser_ContainerManifest(m)) : m \in DocumentManifests}

ManifestFileContents ==
    {[kind |-> "unreadable"]} \cup {[kind |-> "text", text |-> d] : d \in ManifestDocuments}

\* trees whose manifest.json, where there is one, holds something
LoadTrees ==
    {[root |-> T.root, paths |-> T.paths, manifest_json |-> c] :
        T \in {U \in Trees : /\ TestScriptPath \notin U.paths
                             /\ <<"config", "permissions.json">> \in U.paths
                                    => <<"config", "environment.json">> \in U.paths},
        c \in ManifestFileContents \cup {[kind |-> "absent"]}}

ConsistentTree(T) == (<<"manifest.json">> \in T.paths) <=> (T.manifest_json.kind # "absent")

\* Container documents handed to from_json
ContainerDocuments ==
    { MalformedText,
      to_json(ContainerValue(ValidManifest, AppPath, "uuid-1", 1)).val,
      to_json(ContainerValue([ValidManifest EXCEPT !.name = <<>>],
                             AppPath, "uuid-1", 1)).val,
      to_json([ContainerValue([ValidManifest EXCEPT !.version = <<"1", ".", "0">>],
                              AppPath, "uuid-2", 1)
                 EXCEPT !.runtime.status = "Installing"]).val }

\* let c = Container::new(manifest, path)
ContainerNewCall ==
    /\ \E order \in IterationOrders(DOMAIN manifest.scripts), id \in Uuids :
          LET r == create_container(manifest, AppPath, fs, order, id, now)
          IN  /\ last' = [op |-> "Container::new", res |-> r]
              /\ container' = IF IsOk(r) THEN Some(r.val) ELSE container
    /\ UNCHANGED <<containers, manifest, available, fs, now, input>>

\* the scripts map of the manifest that manifest.json deserializes to
LoadedScripts(tree) ==
    IF /\ IsOk(read_to_string(tree, <<"manifest.json">>))
       /\ IsOk(manifest_from_str(read_to_string(tree, <<"manifest.json">>).val))
    THEN manifest_from_str(read_to_string(tree, <<"manifest.json">>).val).val.scripts
    ELSE EmptyMap

\* let c = Container::from_directory(path)
FromDirectoryCall ==
    /\ \E order \in IterationOrders(DOMAIN LoadedScripts(fs)), id \in Uuids :
          LET r == load_from_directory(AppPath, fs, order, id, now)
          IN  /\ last' = [op |-> "Container::from_directory", res |-> r]
              /\ container' = IF IsOk(r) THEN Some(r.val) ELSE container
    /\ UNCHANGED <<containers, manifest, available, fs, now, input>>

\* let c = Container::from_json(&json)
FromJsonCall ==
    /\ LET r == from_json(input)
       IN  /\ last' = [op |-> "Container::from_json", res |-> r]
           /\ container' = IF IsOk(r) THEN Some(r.val) ELSE container
    /\ UNCHANGED <<containers, manifest, available, fs, now, input>>

\* c.to_json()
ToJsonCall ==
    /\ container # None
    /\ last' = [op |-> "to_json", res |-> to_json(container.val)]
    /\ UNCHANGED <<containers, manifest, available, fs, container, now, input>>

InitConstruct ==
    /\ containers = <<>>
    /\ available = None
    /\ container = None
    /\ last = Idle
    /\ now \in 1..MaxClock
    /\ manifest \in {ValidManifest, [ValidManifest EXCEPT !.version = <<"1", ".", "0">>]}
    /\ fs \in {T \in LoadTrees : ConsistentTree(T)}
    /\ input \in ContainerDocuments

NextConstruct ==
    \/ ContainerNewCall
    \/ FromDirectoryCall
    \/ FromJsonCall
    \/ ToJsonCall

SpecConstruct == InitConstruct /\ [][NextConstruct]_vars

\* the manifest of the held Container passes validate
HeldManifestValid ==
    \E order \in IterationOrders(DOMAIN container.val.manifest.scripts) :
        IsOk(validate(container.val.manifest, order))

\* the directory at the held Container's path passes the structure validator
HeldStructureValid ==
    /\ container.val.path = AppPath
    /\ \E order \in IterationOrders(DOMAIN container.val.manifest.scripts) :
          IsOk(validate_structure(AppPath, container.val.manifest, fs, order))

\* C11: every Container obtained from Container::new, Container::from_directory
\* or Container::from_json has a manifest that passes validate and a directory
\* that passes the structure validator.
C11_EveryContainerValidated ==
    container # None => (HeldManifestValid /\ HeldStructureValid)

IsFromDirectory == last.op = "Container::from_directory"

ManifestReadable == PathIsDir /\ fs.manifest_json.kind = "text"
ParsedManifest == manifest_from_str(fs.manifest_json.text)
DocumentParses == ManifestReadable /\ IsOk(ParsedManifest)
ParsedManifestValid ==
    /\ DocumentParses
    /\ \E order \in IterationOrders(DOMAIN ParsedManifest.val.scripts) :
          IsOk(validate(ParsedManifest.val, order))

\* C12: load_from_directory decides in this precedence: the path does not exist
\* (InvalidPath), it is not a directory (InvalidStructure), manifest.json cannot
\* be read or is missing (IoError), the document does not parse
\* (InvalidManifest), the parsed manifest fails validate (that error), and
\* otherwise the result is create_container(parsed manifest, path); over a
\* directory with a valid manifest.json declaring scripts/default.sh, that
\* script, content/ and both config files, it is a Container with status Ready.
C12_LoadPrecedence ==
    IsFromDirectory =>
        LET r == last.res IN
        /\ ~PathExists => (IsErr(r) /\ r.err.kind = "InvalidPath")
        /\ (PathExists /\ ~PathIsDir) => (IsErr(r) /\ r.err.kind = "InvalidStructure")
        /\ (PathIsDir /\ ~ManifestReadable) => (IsErr(r) /\ r.err.kind = "IoError")
        /\ (ManifestReadable /\ ~DocumentParses) =>
              (IsErr(r) /\ r.err.kind = "InvalidManifest")
        /\ (DocumentParses /\ ~ParsedManifestValid) =>
              \E order \in IterationOrders(DOMAIN ParsedManifest.val.scripts) :
                  /\ IsErr(r)
                  /\ r = validate(ParsedManifest.val, order)
        /\ ParsedManifestValid =>
              \E order \in IterationOrders(DOMAIN ParsedManifest.val.scripts),
                 id \in Uuids :
                  r = create_container(ParsedManifest.val, AppPath, fs, order, id, now)
        /\ (/\ ParsedManifestValid
            /\ ParsedManifest.val.scripts = ("default" :> DefaultScriptPath)
            /\ {DefaultScriptPath, <<"content">>, <<"config", "permissions.json">>,
                <<"config", "environment.json">>} \subseteq fs.paths) =>
              (IsOk(r) /\ r.val.runtime.status = "Ready" /\ container = Some(r.val))

\* the complete directory of the end-to-end scenario, loaded
C12_Witness ==
    /\ IsFromDirectory
    /\ ParsedManifestValid
    /\ ParsedManifest.val.scripts = ("default" :> DefaultScriptPath)
    /\ {DefaultScriptPath, <<"content">>, <<"config", "permissions.json">>,
        <<"config", "environment.json">>} \subseteq fs.paths
    /\ IsOk(last.res)
    /\ last.res.val.runtime.status = "Ready"

(***************************************************************************)
(* Runtime mutators of a Container (features/container/service.rs).  Each  *)
(* Utc::now() is a reading of a clock that does not run backwards.         *)
(***************************************************************************)
is_running(c) == c.runtime.status = "Running"

update_last_accessed(c, t) == [c EXCEPT !.last_accessed = t]

\* mark_running that leaves last_accessed alone
mark_running_no_refresh(c, pid, t1, t2) ==
    [c EXCEPT !.runtime.status = "Running",
              !.runtime.pid = Some(pid),
              !.runtime.started_at = Some(t1)]

\* t1 is the reading stored in started_at, t2 the one of update_last_accessed
mark_running(c, pid, t1, t2) ==
    update_last_accessed([c EXCEPT !.runtime.status = "Running",
                                   !.runtime.pid = Some(pid),
                                   !.runtime.started_at = Some(t1)], t2)

\* mark_stopped that keeps the pid
mark_stopped_keeping_pid(c, exit_code, t) ==
    [c EXCEPT !.runtime.status = "Stopped",
              !.runtime.stopped_at = Some(t),
              !.runtime.exit_code = Some(exit_code)]

\* mark_stopped that also refreshes last_accessed
mark_stopped_refreshing(c, exit_code, t) ==
    [c EXCEPT !.runtime.status = "Stopped",
              !.runtime.pid = None,
              !.runtime.stopped_at = Some(t),
              !.runtime.exit_code = Some(exit_code),
              !.last_accessed = t]

\* mark_stopped that ends in Removing
mark_stopped_removing(c, exit_code, t) ==
    [c EXCEPT !.runtime.status = "Removing",
              !.runtime.pid = None,
              !.runtime.stopped_at = Some(t),
              !.runtime.exit_code = Some(exit_code)]

mark_stopped(c, exit_code, t) ==
    [c EXCEPT !.runtime.status = "Stopped",
              !.runtime.pid = None,
              !.runtime.stopped_at = Some(t),
              !.runtime.exit_code = Some(exit_code)]

\* mark_error that also clears the pid
mark_error_clearing_pid(c, error, t) ==
    [c EXCEPT !.runtime.status = "Error",
              !.runtime.pid = None,
              !.runtime.errors = Append(@, error),
              !.runtime.stopped_at = Some(t)]

mark_error(c, error, t) ==
    [c EXCEPT !.runtime.status = "Error",
              !.runtime.errors = Append(@, error),
              !.runtime.stopped_at = Some(t)]

MaxErrors == 2

Pids == {0, 1234}
ExitCodes == {0, -1}
ErrorMessages == {<<"boom">>, <<"out of memory">>}

\* the directory of a complete installation of ValidManifest
CompleteTree ==
    [root |-> "dir",
     paths |-> {<<"scripts">>, <<"content">>, <<"config">>, <<"manifest.json">>,
                DefaultScriptPath, <<"config", "permissions.json">>,
                <<"config", "environment.json">>}]

\* c.update_last_accessed()
UpdateLastAccessedCall ==
    /\ container # None
    /\ \E t \in now..MaxClock :
          /\ container' = Some(update_last_accessed(container.val, t))
          /\ now' = t
          /\ last' = [op |-> "update_last_accessed"]
    /\ UNCHANGED <<containers, manifest, available, fs, input>>

\* c.mark_running(pid)
MarkRunningCall ==
    /\ container # None
    /\ \E pid \in Pids, t1 \in now..MaxClock :
          \E t2 \in t1..MaxClock :
              /\ container' = Some(mark_running(container.val, pid, t1, t2))
              /\ now' = t2
              /\ last' = [op |-> "mark_running", pid |-> pid]
    /\ UNCHANGED <<containers, manifest, available, fs, input>>

\* c.mark_stopped(exit_code)
MarkStoppedCall ==
    /\ container # None
    /\ \E exit_code \in ExitCodes, t \in now..MaxClock :
          /\ container' = Some(mark_stopped(container.val, exit_code, t))
          /\ now' = t
          /\ last' = [op |-> "mark_stopped", exit_code |-> exit_code]
    /\ UNCHANGED <<containers, manifest, available, fs, input>>

\* c.mark_error(error)
MarkErrorCall ==
    /\ container # None
    /\ Len(container.val.runtime.errors) < MaxErrors
    /\ \E error \in ErrorMessages, t \in now..MaxClock :
          /\ container' = Some(mark_error(container.val, error, t))
          /\ now' = t
          /\ last' = [op |-> "mark_error", error |-> error]
    /\ UNCHANGED <<containers, manifest, available, fs, input>>

InitLifecycle ==
    /\ containers = <<>>
    /\ available = None
    /\ container = None
    /\ input = None
    /\ last = Idle
    /\ now = 1
    /\ manifest = ValidManifest
    /\ fs = CompleteTree

NextLifecycle ==
    \/ CreateContainerCall
    \/ UpdateLastAccessedCall
    \/ MarkRunningCall
    \/ MarkStoppedCall
    \/ MarkErrorCall

SpecLifecycle == InitLifecycle /\ [][NextLifecycle]_vars

(***************************************************************************)
(* Properties of the runtime mutators.                                     *)
(***************************************************************************)
\* C13: after mark_running(pid) the status is Running, pid is Some(pid),
\* started_at is set, last_accessed is the current time and is_running() holds;
\* after mark_stopped(code) the status is Stopped, pid is None, exit_code is
\* Some(code), stopped_at is set and is_running() does not hold.
C13_RunningThenStopped ==
    /\ last.op = "mark_running" =>
          /\ container.val.runtime.status = "Running"
          /\ container.val.runtime.pid = Some(last.pid)
          /\ container.val.runtime.started_at # None
          /\ container.val.last_accessed = now
          /\ is_running(container.val)
    /\ last.op = "mark_stopped" =>
          /\ container.val.runtime.status = "Stopped"
          /\ container.val.runtime.pid = None
          /\ container.val.runtime.exit_code = Some(last.exit_code)
          /\ container.val.runtime.stopped_at # None
          /\ ~is_running(container.val)

\* mark_running(1234) at a later time than the creation, then mark_stopped(0)
C13_Witness ==
    /\ last = [op |-> "mark_stopped", exit_code |-> 0]
    /\ container.val.runtime.started_at = Some(MaxClock)
    /\ container.val.last_accessed = MaxClock
    /\ container.val.installed_at = 1
    /\ container.val.runtime.errors = <<>>

AllowedStatusChange(from, to, op) ==
    \/ from = "Ready" /\ to = "Running" /\ op = "mark_running"
    \/ from = "Running" /\ to = "Stopped" /\ op = "mark_stopped"
    \/ to = "Error" /\ op = "mark_error"

\* C14: a mutator call changes the status only from Ready to Running
\* (mark_running), from Running to Stopped (mark_stopped) or from any status to
\* Error (mark_error).
C14_OnlyListedTransitions ==
    [][(/\ container # None
        /\ last'.op \in {"mark_running", "mark_stopped", "mark_error",
                         "update_last_accessed"}
        /\ container'.val.runtime.status # container.val.runtime.status)
       => AllowedStatusChange(container.val.runtime.status,
                              container'.val.runtime.status, last'.op)]_vars

\* C15: mark_error(msg) sets the status to Error, appends msg after the earlier
\* messages, sets stopped_at to the current time and leaves pid, started_at and
\* exit_code as they were.
C15_MarkErrorFrame ==
    [][last'.op = "mark_error" =>
          /\ container'.val.runtime.status = "Error"
          /\ container'.val.runtime.errors
                = Append(container.val.runtime.errors, last'.error)
          /\ container'.val.runtime.stopped_at = Some(now')
          /\ container'.val.runtime.pid = container.val.runtime.pid
          /\ container'.val.runtime.started_at = container.val.runtime.started_at
          /\ container'.val.runtime.exit_code = container.val.runtime.exit_code]_vars

\* a second mark_error on a container that has a pid and an exit code
C15_Witness ==
    /\ last.op = "mark_error"
    /\ container.val.runtime.pid = Some(1234)
    /\ container.val.runtime.exit_code # None
    /\ container.val.runtime.errors = <<<<"boom">>, <<"out of memory">>>>

\* C16: a factory-created Container never gets the status Installing or
\* Removing, whatever mutators are called on it.
C16_InstallingRemovingUnreachable ==
    container # None =>
        container.val.runtime.status \in {"Ready", "Running", "Stopped", "Error"}

\* a container that has run, stopped and failed, and is then accessed
C16_Witness ==
    /\ last.op = "update_last_accessed"
    /\ container.val.runtime.status = "Error"
    /\ container.val.runtime.started_at # None
    /\ container.val.runtime.exit_code # None
    /\ Len(container.val.runtime.errors) = MaxErrors

(***************************************************************************)
(* Properties of Version parsing (SpecVersion).                            *)
(***************************************************************************)
IsVersionNew == last.op = "Version::new"

\* three dot-separated decimal numbers, none with a leading zero other than "0"
ThreeDecimalNumbers(s) ==
    /\ IsDecimal(s)
    /\ \A i \in 1..3 : Split(s, ".")[i] = StripZeros(Split(s, ".")[i])

\* some component of a three-number string is above u32::MAX
ExceedsU32(s) ==
    /\ IsDecimal(s)
    /\ \E i \in 1..3 : NumLess(U32MaxDigits, DecimalComponents(s)[i])

\* C17: Version::new(s) succeeds only for strings of exactly three dot-separated
\* decimal numbers without sign, without leading zeros other than "0" and
\* without other characters; every other string fails with
\* InvalidVersion{version: s}.
C17_OnlyThreeDecimalNumbers ==
    IsVersionNew =>
        /\ IsOk(last.res) => ThreeDecimalNumbers(input.self)
        /\ ~ThreeDecimalNumbers(input.self) =>
              last.res = Err(InvalidVersion(input.self))

\* C18: Version::new(s) fails with InvalidVersion{version: s} when a component
\* of s is above 4294967295, and every Version it returns has components that
\* read back as u32.
C18_OverflowRejected ==
    IsVersionNew =>
        /\ ExceedsU32(input.self) => last.res = Err(InvalidVersion(input.self))
        /\ IsOk(last.res) => IsOk(parse_components(last.res.val))

\* C20: v.is_compatible_with(v) is true for every constructed Version v.
C20_CompatibleWithItself ==
    (last.op = "is_compatible_with" /\ last.self = last.other) => last.res

(***************************************************************************)
(* The ways a Version value comes into being: Version::new, from_parts,    *)
(* str::parse and deserialization, alone or inside a manifest document.    *)
(***************************************************************************)
\* Version::from_parts(major, minor, patch) on u32 values given by their digits
from_parts(major, minor, patch) == VersionNew(FormatParts(major, minor, patch))

\* impl FromStr for Version
from_str_Version(s) == VersionNew(s)

\* a u32 value, as its decimal digits
IsU32(d) == IsOk(parse_u32(d)) /\ parse_u32(d).val = d

\* Version::from_parts on the three numbers of input.self
FromPartsCall ==
    /\ IsDecimal(input.self)
    /\ \A i \in 1..3 : IsU32(Split(input.self, ".")[i])
    /\ last' = [op |-> "from_parts",
                res |-> from_parts(Split(input.self, ".")[1], Split(input.self, ".")[2],
                                   Split(input.self, ".")[3])]
    /\ UNCHANGED <<containers, manifest, available, fs, container, now, input>>

\* input.self.parse::<Version>()
ParseCall ==
    /\ last' = [op |-> "parse", res |-> from_str_Version(input.self)]
    /\ UNCHANGED <<containers, manifest, available, fs, container, now, input>>

\* serde_json::from_str::<Version>("\"<input.self>\"")
DeserializeVersionCall ==
    /\ last' = [op |-> "deserialize Version",
                res |-> version_from_str(JsonText(JString(input.self)))]
    /\ UNCHANGED <<containers, manifest, available, fs, container, now, input>>

\* the version of the manifest read from a document {name, version: input.self}
DeserializeManifestCall ==
    /\ LET m == manifest_from_str(JsonText(JObject([name |-> JString(AppName),
                                                    version |-> JString(input.self)])))
       IN  last' = [op |-> "deserialize ContainerManifest",
                    res |-> IF IsOk(m) THEN Ok(m.val.version) ELSE m]
    /\ UNCHANGED <<containers, manifest, available, fs, container, now, input>>

InitVersionSources ==
    /\ containers = <<>>
    /\ manifest = None
    /\ available = None
    /\ fs = None
    /\ container = None
    /\ now = 0
    /\ input \in [self : VersionStrings, other : {<<>>}]
    /\ last = Idle

NextVersionSources ==
    \/ VersionNewCall
    \/ FromPartsCall
    \/ ParseCall
    \/ DeserializeVersionCall
    \/ DeserializeManifestCall

SpecVersionSources == InitVersionSources /\ [][NextVersionSources]_vars

\* C19: every Version that Version::new, from_parts, parse or deserialization
\* yields passes validate().
C19_EveryVersionValidated ==
    (last.op # "none" /\ IsOk(last.res)) => IsOk(VersionValidate(last.res.val))

(***************************************************************************)
(* Version ordering and rendering (features/version/mod.rs).               *)
(***************************************************************************)
\* (u32, u32, u32)::cmp on tuples of numbers
TupleCmp(a, b) ==
    IF a = b THEN "Equal"
    ELSE IF TupleGe(a, b) THEN "Greater"
    ELSE "Less"

\* impl Ord for Version
cmp(self, other) ==
    LET s == parse_components(self)
        o == parse_components(other)
    IN  IF IsOk(s) /\ IsOk(o) THEN TupleCmp(s.val, o.val)
        ELSE IF IsOk(s) THEN "Greater"
        ELSE IF IsOk(o) THEN "Less"
        ELSE "Equal"

\* derived PartialEq: equality of the stored strings
eq(self, other) == self = other

\* a Display that leaves the patch out
to_string_without_patch(v) == Join(SubSeq(Split(v, "."), 1, 2), <<".">>)

\* impl Display for Version: the stored string
to_string(v) == v

\* the constructible versions that are compared
OrderedVersions ==
    {s \in {FormatParts(a, b, c) : a \in {<<"1">>, <<"2">>, U32Max, U32MaxPlusOne},
                                   b \in {<<"0">>, <<"2">>, <<"1", "0">>},
                                   c \in {<<"0">>, <<"3">>}}
           \cup {<<"1", ".", "1", "U0663", ".", "3">>} : IsOk(VersionNew(s))}

\* a.cmp(&b), b.cmp(&c), a.cmp(&c), b.cmp(&a) and a == b
CmpCall ==
    /\ last' = [op |-> "cmp",
                ab |-> cmp(input.a, input.b),
                bc |-> cmp(input.b, input.c),
                ac |-> cmp(input.a, input.c),
                ba |-> cmp(input.b, input.a),
                eq |-> eq(input.a, input.b)]
    /\ UNCHANGED <<containers, manifest, available, fs, container, now, input>>

\* Version::from_parts(major, minor, patch)?.to_string().parse::<Version>() on
\* the three numbers of input.a
RoundTripCall ==
    /\ \A i \in 1..3 : IsU32(Split(input.a, ".")[i])
    /\ LET parts == Split(input.a, ".")
           built == from_parts(parts[1], parts[2], parts[3])
       IN  last' = [op |-> "round_trip",
                    parts |-> parts,
                    built |-> built,
                    text |-> IF IsOk(built) THEN to_string(built.val) ELSE <<>>,
                    parsed |-> IF IsOk(built)
                               THEN from_str_Version(to_string(built.val)) ELSE built]
    /\ UNCHANGED <<containers, manifest, available, fs, container, now, input>>

InitVersionOrder ==
    /\ containers = <<>>
    /\ manifest = None
    /\ available = None
    /\ fs = None
    /\ container = None
    /\ now = 0
    /\ input \in [a : OrderedVersions, b : OrderedVersions, c : OrderedVersions]
    /\ last = Idle

NextVersionOrder ==
    \/ CmpCall
    \/ RoundTripCall

SpecVersionOrder == InitVersionOrder /\ [][NextVersionOrder]_vars

\* the lexicographic comparison of the decimal (major, minor, patch) of a and b
LexCompare(a, b) ==
    LET x == DecimalComponents(a)
        y == DecimalComponents(b)
    IN  IF x = y THEN "Equal" ELSE IF TupleGe(x, y) THEN "Greater" ELSE "Less"

Reverse(o) == IF o = "Less" THEN "Greater" ELSE IF o = "Greater" THEN "Less" ELSE "Equal"

\* C21: a.cmp(b) is the lexicographic comparison of (major, minor, patch); it is
\* Equal exactly when a == b, b.cmp(a) is its reverse, and it is transitive.
C21_TotalLexicographicOrder ==
    last.op = "cmp" =>
        /\ IsDecimal(input.a) /\ IsDecimal(input.b) => last.ab = LexCompare(input.a, input.b)
        /\ (last.ab = "Equal") <=> last.eq
        /\ last.ba = Reverse(last.ab)
        /\ (last.ab # "Greater" /\ last.bc # "Greater") => last.ac # "Greater"
        /\ (last.ab = "Less" /\ last.bc # "Greater") => last.ac = "Less"

\* C22: for u32 parts, from_parts succeeds, its rendering is exactly
\* "major.minor.patch", and parsing the rendering gives a Version equal to the
\* one rendered.
C22_RenderParseRoundTrip ==
    last.op = "round_trip" =>
        /\ IsOk(last.built)
        /\ last.text = last.parts[1] \o <<".">> \o last.parts[2] \o <<".">> \o last.parts[3]
        /\ last.parsed = last.built
        /\ eq(last.parsed.val, last.built.val)

\* the round trip of 4294967295.10.3
C22_Witness ==
    /\ last.op = "round_trip"
    /\ last.parts = <<U32Max, <<"1", "0">>, <<"3">>>>
    /\ IsOk(last.parsed)
    /\ last.parsed.val = FormatParts(U32Max, <<"1", "0">>, <<"3">>)

(***************************************************************************)
(* Further properties of ContainerManifest::validate.                      *)
(***************************************************************************)
\* every character of the name is in [A-Za-z0-9_-], and there is at least one
NameInAsciiSet ==
    /\ NameGiven
    /\ \A i \in 1..Len(manifest.name) :
          manifest.name[i] \in AsciiLetters \cup AsciiDigits \cup {"-", "_"}

\* validate fails on the name
NameRejected(r) ==
    /\ IsErr(r)
    /\ r.err.kind = "ManifestValidation"
    /\ r.err.msg \in
         { <<"Container name cannot be empty">>,
           <<"Container name can only contain alphanumeric characters, hyphens, and underscores">> }

\* C23: validate accepts the name exactly when it is non-empty and all its
\* characters are in [A-Za-z0-9_-]; any other name fails with
\* ManifestValidation.
C23_NameAsciiOnly ==
    IsValidate => (NameRejected(last.res) <=> ~NameInAsciiSet)

\* C24: with checks 1 to 5 passed, the first defective dependency gives
\* InvalidDependency with package "" and reason "name cannot be empty" for an
\* empty name, the dependency name and "version cannot be empty" for an empty
\* version, the dependency name and "Invalid version format: {v}" for a version
\* that does not parse.
C24_DependencyErrorPayload ==
    (/\ IsValidate
     /\ NameGiven /\ NameInCharset /\ VersionValid /\ HasDefault
     /\ EmptyPathScripts = {} /\ ~DependenciesSound) =>
        LET d == manifest.dependencies[FirstDefective] IN
        /\ d.name = <<>> =>
              last.res = Err(InvalidDependency(<<>>, <<"name cannot be empty">>))
        /\ (d.name # <<>> /\ d.version = <<>>) =>
              last.res = Err(InvalidDependency(d.name, <<"version cannot be empty">>))
        /\ (d.name # <<>> /\ d.version # <<>>) =>
              last.res = Err(InvalidDependency(d.name,
                                 <<"Invalid version format: ">> \o d.version))

(***************************************************************************)
(* validate on two equal manifests: two HashMap instances with the same    *)
(* entries, each with an iteration order of its own.                       *)
(***************************************************************************)
\* a.validate() and b.validate() for a == b
ValidateEqualManifestsCall ==
    /\ \E order_a \in IterationOrders(DOMAIN manifest.scripts),
          order_b \in IterationOrders(DOMAIN manifest.scripts) :
          last' = [op |-> "validate equal manifests",
                   first |-> validate(manifest, order_a),
                   second |-> validate(manifest, order_b)]
    /\ UNCHANGED <<containers, manifest, available, fs, container, now, input>>

NextManifestPair ==
    \/ ValidateCall
    \/ ValidateEqualManifestsCall

SpecManifestPair == InitManifest /\ [][NextManifestPair]_vars

\* C29: two evaluations of validate on equal manifests return the same result,
\* error kind and message included, also with several empty script paths.
C29_ValidateDeterministic ==
    last.op = "validate equal manifests" => last.first = last.second

(***************************************************************************)
(* The cycle check called with a path that already has content.            *)
(***************************************************************************)
MaxPath == 2

\* registries over three names, each unregistered or with up to two dependencies
SmallRegistries ==
    UNION {[D -> SeqsUpTo({NameA, NameB, NameC}, 2)] : D \in SUBSET {NameA, NameB, NameC}}

\* check_circular_dependencies(&containers, &mut input.path, input.current)
CheckCircularFromCall ==
    /\ LET r == check_circular_dependencies(containers, input.path, input.current)
       IN  last' = [op |-> "check_circular_dependencies",
                    registry |-> containers,
                    path |-> input.path,
                    current |-> input.current,
                    res |-> r.res,
                    visited |-> r.visited]
    /\ UNCHANGED <<containers, manifest, available, fs, container, now, input>>

InitCyclePath ==
    /\ containers \in SmallRegistries
    /\ manifest = None
    /\ available = None
    /\ fs = None
    /\ container = None
    /\ now = 0
    /\ input \in [path : SeqsUpTo({NameA, NameB}, MaxPath), current : {NameA, NameB, NameC}]
    /\ last = Idle

NextCyclePath == CheckCircularFromCall

SpecCyclePath == InitCyclePath /\ [][NextCyclePath]_vars

\* C25: when check_circular_dependencies returns Ok, the path after the call is
\* the path before the call, for any initial path, registry and start name.
C25_PathRestoredOnOk ==
    (IsCheck /\ IsOk(last.res)) => last.visited = last.path

\* a path of two entries and a registered start with two dependencies, one of
\* them registered
C25_Witness ==
    /\ IsCheck
    /\ IsOk(last.res)
    /\ Len(last.path) = MaxPath
    /\ last.current \in DOMAIN last.registry
    /\ Len(last.registry[last.current]) = 2
    /\ \E i \in 1..2 : last.registry[last.current][i] \in DOMAIN last.registry

\* C26: when check_circular_dependencies returns CircularDependency, the path
\* after the call is the path the caller passed in.
C26_PathRestoredOnError ==
    (IsCheck /\ IsErr(last.res)) => last.visited = last.path

(***************************************************************************)
(* The cycle check, one step of its recursion at a time.  last holds the   *)
(* running call: the &mut visited, the stack of activations (the name each *)
(* was called with and the index of the dependency its loop is at, 0       *)
(* before the contains test) and the error being propagated, if any.       *)
(***************************************************************************)
Frame(current, next) == [current |-> current, next |-> next]

Top(m) == m.stack[Len(m.stack)]
Return(m) == SubSeq(m.stack, 1, Len(m.stack) - 1)

\* an entry that looks only at the last name of visited
enter_looking_at_last(registry, m) ==
    IF m.visited # <<>> /\ m.visited[Len(m.visited)] = Top(m).current
    THEN [m EXCEPT !.res = Some(Err(CircularDependency(ChainOf(m.visited, Top(m).current)))),
                   !.stack = Return(m)]
    ELSE IF Top(m).current \in DOMAIN registry
    THEN [m EXCEPT !.visited = Append(@, Top(m).current),
                   !.stack[Len(m.stack)].next = 1]
    ELSE [m EXCEPT !.stack = Return(m)]

\* lines 252-259: the contains test, then the lookup and the push
enter(registry, m) ==
    IF Contains(m.visited, Top(m).current)
    THEN [m EXCEPT !.res = Some(Err(CircularDependency(ChainOf(m.visited, Top(m).current)))),
                   !.stack = Return(m)]
    ELSE IF Top(m).current \in DOMAIN registry
    THEN [m EXCEPT !.visited = Append(@, Top(m).current),
                   !.stack[Len(m.stack)].next = 1]
    ELSE [m EXCEPT !.stack = Return(m)]

\* lines 261-265: the next recursive call of the loop, or the pop after it
loop(registry, m) ==
    IF Top(m).next <= Len(registry[Top(m).current])
    THEN [m EXCEPT !.stack = Append([m.stack EXCEPT ![Len(m.stack)].next = @ + 1],
                                    Frame(registry[Top(m).current][Top(m).next], 0))]
    ELSE [m EXCEPT !.visited = PopVisited(@), !.stack = Return(m)]

\* `?` in an activation whose callee returned Err
propagate(m) == [m EXCEPT !.stack = Return(m)]

Running == last.op = "traversal" /\ last.stack # <<>>
Returned == last.op = "traversal" /\ last.stack = <<>>

\* check_circular_dependencies(&containers, &mut vec![], input.current) is called
StartCheck ==
    /\ last = Idle
    /\ last' = [op |-> "traversal", visited |-> <<>>,
                stack |-> <<Frame(input.current, 0)>>, res |-> None]
    /\ UNCHANGED <<containers, manifest, available, fs, container, now, input>>

EnterStep ==
    /\ Running /\ last.res = None /\ Top(last).next = 0
    /\ last' = enter(containers, last)
    /\ UNCHANGED <<containers, manifest, available, fs, container, now, input>>

LoopStep ==
    /\ Running /\ last.res = None /\ Top(last).next > 0
    /\ last' = loop(containers, last)
    /\ UNCHANGED <<containers, manifest, available, fs, container, now, input>>

PropagateStep ==
    /\ Running /\ last.res # None
    /\ last' = propagate(last)
    /\ UNCHANGED <<containers, manifest, available, fs, container, now, input>>

InitTraversal ==
    /\ containers \in SmallRegistries
    /\ manifest = None
    /\ available = None
    /\ fs = None
    /\ container = None
    /\ now = 0
    /\ input \in [current : {NameA, NameB, NameC}]
    /\ last = Idle

NextTraversal ==
    \/ StartCheck
    \/ EnterStep
    \/ LoopStep
    \/ PropagateStep

\* the call runs: a step that can be taken is taken
SpecTraversal == InitTraversal /\ [][NextTraversal]_vars /\ WF_vars(NextTraversal)

\* C27: started with an empty path the check terminates for every registry and
\* start name; meanwhile the path never holds a name twice and the recursion is
\* never deeper than the number of registered containers plus one.
C27_Terminates ==
    /\ [](last.op = "traversal" =>
            /\ Distinct(last.visited)
            /\ Len(last.stack) <= Cardinality(DOMAIN containers) + 1)
    /\ <>Returned

\* the deepest recursion of a cycle through the three registered containers
C27_Witness ==
    /\ Running
    /\ Cardinality(DOMAIN containers) = 3
    /\ Len(last.stack) = 4
    /\ Len(last.visited) = 3
    /\ Top(last).current = input.current

\* the step-wise call returns what check_circular_dependencies returns
TraversalAgrees ==
    Returned =>
        /\ last.visited = check_circular_dependencies(containers, <<>>, input.current).visited
        /\ (IF last.res = None THEN Ok(Unit) ELSE last.res.val)
              = check_circular_dependencies(containers, <<>>, input.current).res

(***************************************************************************)
(* Invariants and frame of the runtime (SpecLifecycle).                    *)
(***************************************************************************)
\* C28: in every state reached from a factory-created Container by the
\* mutators: Ready implies no pid, started_at, stopped_at, exit_code and no
\* errors; Running implies a pid and started_at; Stopped implies no pid and an
\* exit_code and stopped_at; Error implies some error and stopped_at; a pid is
\* present only in Running or Error.
C28_RuntimeInvariant ==
    container # None =>
        LET r == container.val.runtime IN
        /\ r.status = "Ready" =>
              /\ r.pid = None /\ r.started_at = None /\ r.stopped_at = None
              /\ r.exit_code = None /\ r.errors = <<>>
        /\ r.status = "Running" => (r.pid # None /\ r.started_at # None)
        /\ r.status = "Stopped" =>
              (r.pid = None /\ r.exit_code # None /\ r.stopped_at # None)
        /\ r.status = "Error" => (r.errors # <<>> /\ r.stopped_at # None)
        /\ r.pid # None => r.status \in {"Running", "Error"}

\* running again after a stop and an error
C28_Witness ==
    /\ container # None
    /\ container.val.runtime.status = "Running"
    /\ container.val.runtime.errors # <<>>
    /\ container.val.runtime.exit_code # None
    /\ container.val.runtime.stopped_at # None

\* C30: mark_running, mark_stopped, mark_error and update_last_accessed leave
\* manifest, path, runtime.id and installed_at as they are; only mark_error
\* changes errors, by appending exactly one message; mark_stopped and
\* mark_error leave last_accessed as it is.
C30_MutatorFrame ==
    [][last'.op \in {"mark_running", "mark_stopped", "mark_error", "update_last_accessed"} =>
          /\ container'.val.manifest = container.val.manifest
          /\ container'.val.path = container.val.path
          /\ container'.val.runtime.id = container.val.runtime.id
          /\ container'.val.installed_at = container.val.installed_at
          /\ last'.op = "mark_error" =>
                /\ Len(container'.val.runtime.errors)
                      = Len(container.val.runtime.errors) + 1
                /\ SubSeq(container'.val.runtime.errors, 1,
                          Len(container.val.runtime.errors))
                      = container.val.runtime.errors
          /\ last'.op # "mark_error" =>
                container'.val.runtime.errors = container.val.runtime.errors
          /\ last'.op \in {"mark_stopped", "mark_error"} =>
                container'.val.last_accessed = container.val.last_accessed]_vars

\* a mark_stopped at a later time than the last access, after an error
C30_Witness ==
    /\ last.op = "mark_stopped"
    /\ container.val.last_accessed < now
    /\ container.val.runtime.errors # <<>>

====
